---- MODULE Spec2Model ----
(***************************************************************************)
(* Model of curtin's storage configuration execution engine               *)
(* (curtin/commands/block_meta.py): the dispatcher meta_custom, the path   *)
(* resolver, the partition geometry calculator and the type handlers.      *)
(*                                                                         *)
(* Conventions                                                             *)
(*  - a volume declaration is a record with every key present; a key the   *)
(*    declaration does not carry holds the falsy value of its kind ("",    *)
(*    0, <<>>, FALSE, NoPath), which is how the code's .get() / `not x`    *)
(*    tests read it;                                                       *)
(*  - a kernel name is a sequence of tokens (<<"sd","a">>,                 *)
(*    <<"nvme","0n1">>) so that str.startswith is a test of the first      *)
(*    token; a path is [dir, kname], the pair os.path.split returns;       *)
(*  - a handler is an operator threading a result record r through its     *)
(*    statements: once r.err is set (an exception is propagating) every    *)
(*    later statement leaves r unchanged;                                  *)
(*  - every external command is appended to r.cmds when it is invoked; the *)
(*    environment chooses r.fail, the call of a tool within this handler   *)
(*    invocation that exits with an untolerated status (NoFail: none); a   *)
(*    sticky failure hits every later call of the tool as well.            *)
(***************************************************************************)
EXTENDS Integers, Sequences, FiniteSets, TLC

VARIABLES
    storage_config,   \* the OrderedDict meta_custom iterates, as a sequence
    idx,              \* position of the dispatcher loop in storage_config
    status,           \* "loading" | "running" | "done" | "failed" (exception left meta_custom)
    error,            \* [vol, kind]: what was raised, and for which volume
    started,          \* ids whose handler has been invoked, in order
    returned,         \* ids whose handler has returned without error
    cmds,             \* every external command invoked so far, in order
    kern,             \* /sys/block/<disk>/<part>/{start,size}, 512-byte units
    devs,             \* device nodes that exist (os.path.exists)
    lbs,              \* /sys/block/<disk>/queue/logical_block_size (0: unreadable)
    ptab,             \* partition-table type blkid reports per disk ("" : none)
    rules,            \* udev rule files written by make_dname
    geometry,         \* {partition_number, start_sector, length_sector} computed
                      \* by partition_handler, per partition, in order
    md,               \* the md array the kernel has assembled: [up, members, spares]
    mdAfter,          \* the array mdadm --assemble would bring up
    lvm,              \* LVM metadata: [pvs : {[vg, pv]}, lvs : {[lv, vg]}]
    files,            \* files the engine writes: fstab, crypttab, mdadm.conf lines
                      \* and the transient key files that exist
    bc,               \* bcache in sysfs: [csets, backing, holders]
    state,            \* util.load_command_environment(): [fstab : is a location set]
    iscsi,            \* block/iscsi.py: [registry, sessions, nodes, n, last] of the ensure_disk_connected calls
    config,           \* the declaration list of the configuration file, when the run starts by loading it (status "loading")
    bootpt,           \* the last call of get_bootpt_cfg: [cfg, enabled, fstype, root_fstype, def_boot, called, ret]
    appear,           \* the os.path.exists poll of a devsync at which a node
                      \* that is not there yet shows up (0: it never does)
    polls             \* os.path.exists polls made by the last devsync of the
                      \* handler invoked last

vars == <<storage_config, idx, status, error, started, returned, cmds,
          kern, devs, lbs, ptab, rules, geometry, md, mdAfter, lvm, files,
          bc, state, appear, polls,
          bootpt,
          config,
          iscsi>>

-----------------------------------------------------------------------------
(* Bounds                                                                  *)

MaxParts == 3        \* partitions declared on the disk of a partition layout
MaxVols == 4         \* declarations in a storage configuration of the dispatcher
MaxIoErrs == 6       \* consecutive IOErrors of writes to /sys/fs/bcache/register
MaxFail == 2         \* an injected failure hits the 1st .. MaxFail-th call of a tool
MaxAppear == 11      \* a missing node shows up at the 1st .. MaxAppear-th poll
MaxDisks == 2        \* disks resolved one after the other (SpecSync)

-----------------------------------------------------------------------------
(* Data model                                                              *)

NoPath == [dir |-> "", kname |-> <<>>]

DevPath(kname) == [dir |-> "/dev", kname |-> kname]

NoFiles == [fstab |-> <<>>, crypttab |-> <<>>, mdadm_conf |-> FALSE,
            keyfiles |-> 0]

NoMd == [up |-> FALSE, members |-> {}, spares |-> {}]

NoLvm == [pvs |-> {}, lvs |-> {}]

\* nothing registered with the kernel's bcache subsystem
NoBc == [csets |-> {}, backing |-> {}, holders |-> {}]

\* how the kernel and udev answer the bcache registration of one handler run:
\* udev registers the device by itself; the first ioerrs writes to
\* /sys/fs/bcache/register raise IOError; a write that raises nothing makes
\* the device appear; get_holders finds holders of an unregistered device
NoEnv == [autoreg |-> FALSE, ioerrs |-> 0, regworks |-> TRUE,
          holders |-> FALSE]

\* a declaration with no key set
NoVol ==
    [id |-> "", type |-> "", preserve |-> FALSE, device |-> "", number |-> 0,
     flag |-> "", size |-> 0, ptable |-> "", path |-> NoPath, serial |-> "",
     name |-> "", wipe |-> "", volume |-> "", fstype |-> "", volgroup |-> "",
     devices |-> <<>>, spare_devices |-> <<>>, raidlevel |-> "",
     backing_device |-> "", cache_device |-> "", cache_mode |-> "",
     key |-> "", dm_name |-> ""]

\* storage_config.get(id): the declaration, or None (NoVol, which is falsy)
HasVol(cfg, id) == \E i \in 1..Len(cfg) : cfg[i].id = id

GetVol(cfg, id) ==
    IF HasVol(cfg, id)
    THEN cfg[CHOOSE i \in 1..Len(cfg) : cfg[i].id = id]
    ELSE NoVol

IndexOf(cfg, id) == CHOOSE i \in 1..Len(cfg) : cfg[i].id = id

-----------------------------------------------------------------------------
(* Partition numbering                                                     *)

\* faulty variant of the counting loops: the device of an entry is not looked at
CountBefore_anydevice(cfg, vol, onlyLogical) ==
    LET stop == IF HasVol(cfg, vol.id) THEN IndexOf(cfg, vol.id)
                                       ELSE Len(cfg) + 1
    IN Cardinality({i \in 1..(stop - 1) :
                        /\ cfg[i].type = "partition"
                        /\ (onlyLogical => cfg[i].flag = "logical")})

\* the counting loops of determine_partition_number: entries before the
\* volume itself that are partitions of the same device (and, for a logical
\* partition, logical as well)
CountBefore(cfg, vol, onlyLogical) ==
    LET stop == IF \E i \in 1..Len(cfg) :
                        /\ cfg[i].type = "partition"
                        /\ cfg[i].device = vol.device
                        /\ (onlyLogical => cfg[i].flag = "logical")
                        /\ cfg[i].id = vol.id
                THEN CHOOSE i \in 1..Len(cfg) :
                        /\ cfg[i].type = "partition"
                        /\ cfg[i].device = vol.device
                        /\ (onlyLogical => cfg[i].flag = "logical")
                        /\ cfg[i].id = vol.id
                ELSE Len(cfg) + 1
    IN Cardinality({i \in 1..(stop - 1) :
                        /\ cfg[i].type = "partition"
                        /\ cfg[i].device = vol.device
                        /\ (onlyLogical => cfg[i].flag = "logical")})

\* faulty variant: a logical partition is counted from 5 over every partition
\* of the device declared before it, primary and extended included
determine_partition_number_allparts(partition_id, cfg) ==
    LET vol == GetVol(cfg, partition_id)
    IN IF vol.number # 0 THEN vol.number
       ELSE IF vol.flag = "logical" THEN 5 + CountBefore(cfg, vol, FALSE)
       ELSE 1 + CountBefore(cfg, vol, FALSE)

determine_partition_number(partition_id, cfg) ==
    LET vol == GetVol(cfg, partition_id)
    IN IF vol.flag = "logical"
       THEN IF vol.number = 0 THEN 5 + CountBefore(cfg, vol, TRUE)
                              ELSE vol.number
       ELSE IF vol.number = 0 THEN 1 + CountBefore(cfg, vol, FALSE)
                              ELSE vol.number

\* "p<N>" for nvme and mmcblk disks, "<N>" otherwise; N = 0 stands for None
NumToken(n) == IF n = 0 THEN "None" ELSE ToString(n)

determine_partition_kname(disk_kname, partition_number) ==
    IF Len(disk_kname) > 0 /\ disk_kname[1] \in {"nvme", "mmcblk"}
    THEN Append(disk_kname, "p" \o NumToken(partition_number))
    ELSE Append(disk_kname, NumToken(partition_number))

getnumberoflogicaldisks(device, cfg) ==
    Cardinality({i \in 1..Len(cfg) :
                    cfg[i].device = device /\ cfg[i].flag = "logical"})

\* number of the last partition of the disk declared before part_id that is
\* not flagged extended; 0 (None) when there is none
find_previous_partition(disk_id, part_id, cfg) ==
    LET stop == IF HasVol(cfg, part_id) THEN IndexOf(cfg, part_id)
                                        ELSE Len(cfg) + 1
        cand == {i \in 1..(stop - 1) :
                    /\ cfg[i].type = "partition"
                    /\ cfg[i].device = disk_id
                    /\ cfg[i].flag # "extended"}
    IN IF cand = {} THEN 0
       ELSE determine_partition_number(
                cfg[CHOOSE i \in cand : \A j \in cand : j <= i].id, cfg)

-----------------------------------------------------------------------------
(* Execution of one handler: result record and external commands           *)

Tools == {"partprobe", "udevadm", "blkid", "sgdisk", "parted", "wipe",
          "mdadm", "mkfs", "mount", "vgchange", "pvdisplay", "vgcreate",
          "lvdisplay", "lvcreate", "cryptsetup", "modprobe", "make-bcache",
          "bcache-super-show", "clear_holders"}

NoFail == [tool |-> "", nth |-> 0, sticky |-> FALSE]

\* the tools a failed call of which does not end the handler: whether their
\* later calls fail as well makes a difference
Forgiven == {"blkid", "wipe"}

Fails == {NoFail} \cup [tool : Tools, nth : 1..MaxFail, sticky : {FALSE}]
                  \cup [tool : Forgiven, nth : 1..MaxFail, sticky : {TRUE}]

\* failed: the call raised (exit status not tolerated, or IOError)
Cmd(tool, op, dev) == [tool |-> tool, op |-> op, dev |-> dev, name |-> "",
                       num |-> 0, from |-> 0, to |-> 0, vol |-> "",
                       failed |-> FALSE]

\* the state a handler starts from
R0(fail) ==
    [err |-> "", cmds |-> <<>>, fail |-> fail, ret |-> NoPath,
     kern |-> kern, devs |-> devs, ptab |-> ptab, rules |-> rules,
     geom |-> geometry, md |-> md, lvm |-> lvm, files |-> files, bc |-> bc,
     env |-> NoEnv, appear |-> appear, polls |-> 0]

Failed(r) == r.err # ""

\* raise
Raise(r, e) == IF Failed(r) THEN r ELSE [r EXCEPT !.err = e]

\* return value
Ret(r, value) == IF Failed(r) THEN r ELSE [r EXCEPT !.ret = value]

CallsOf(r, tool) == Cardinality({i \in 1..Len(r.cmds) : r.cmds[i].tool = tool})

\* util.subp(cmd): the command is invoked; it raises ProcessExecutionError
\* when the environment makes this call fail
Fires(r, c) ==
    /\ r.fail.tool = c.tool
    /\ \/ r.fail.nth = CallsOf(r, c.tool) + 1
       \/ r.fail.sticky /\ r.fail.nth <= CallsOf(r, c.tool) + 1

Run(r, c) ==
    IF Failed(r) THEN r
    ELSE IF Fires(r, c)
         THEN [r EXCEPT !.cmds = Append(@, [c EXCEPT !.failed = TRUE]),
                        !.err = "ProcessExecutionError"]
         ELSE [r EXCEPT !.cmds = Append(@, c)]

\* util.subp(cmd, retries=[1, 1, 1]): a call that raises is repeated after a
\* second of sleep, `retries` times; the error of the last call propagates
RECURSIVE subp_retries(_, _, _)
subp_retried(r, c, retries) ==
    IF Failed(r) /\ retries > 0
    THEN subp_retries([r EXCEPT !.err = ""], c, retries - 1)
    ELSE r

subp_retries(r, c, retries) ==
    IF Failed(r) THEN r ELSE subp_retried(Run(r, c), c, retries)

PollCount == 10     \* range(0, 10) in devsync

\* os.path.exists(devpath) at the x-th poll of a devsync
exists_at(r, devpath, x) ==
    devpath \in r.devs \/ (r.appear # 0 /\ r.appear <= x)

\* faulty variant of the loop: one poll more than range(0, 10) makes
RECURSIVE devsync_poll_eleven(_, _, _)
devsync_poll_eleven(r, devpath, x) ==
    IF x > PollCount THEN Raise(r, "OSError")
    ELSE IF exists_at(r, devpath, x + 1)
    THEN [r EXCEPT !.polls = x + 1, !.devs = @ \cup {devpath}]
    ELSE devsync_poll_eleven([r EXCEPT !.polls = x + 1], devpath, x + 1)

\* the loop `for x in range(0, 10)`, r being the state before iteration x:
\* a poll that finds the path returns, any other sleeps a second; after the
\* last one OSError is raised
RECURSIVE devsync_poll(_, _, _)
devsync_poll(r, devpath, x) ==
    IF x >= PollCount THEN Raise(r, "OSError")
    ELSE IF exists_at(r, devpath, x + 1)
    THEN [r EXCEPT !.polls = x + 1, !.devs = @ \cup {devpath}]
    ELSE devsync_poll([r EXCEPT !.polls = x + 1], devpath, x + 1)

\* the os.path.exists polls of devsync, r being the state after the settle
devsync_exists(r, devpath) ==
    IF Failed(r) THEN r ELSE devsync_poll([r EXCEPT !.polls = 0], devpath, 0)

\* faulty variant: the node that was waited for is gone after the sync
devsync_consumes(r, devpath) ==
    [devsync_exists(Run(Run(r, Cmd("partprobe", "", devpath)),
                        Cmd("udevadm", "settle", NoPath)),
                    devpath)
     EXCEPT !.devs = @ \ {devpath}]

\* partprobe and udevadm settle, then up to ten os.path.exists polls
devsync(r, devpath) ==
    devsync_exists(Run(Run(r, Cmd("partprobe", "", devpath)),
                       Cmd("udevadm", "settle", NoPath)),
                   devpath)

\* block.lookup_disk(serial): the disk carrying that serial number
lookup_disk(serial) ==
    IF serial = "SN-A" THEN DevPath(<<"sd", "a">>)
    ELSE IF serial = "SN-N" THEN DevPath(<<"nvme", "0n1">>)
    ELSE NoPath

\* the partition branch, rd being the state after the parent was resolved:
\* the parent's path is the one that is synced
partition_volume_path(rd, vol, cfg) ==
    Ret(devsync(rd, rd.ret),
        [dir |-> rd.ret.dir,
         kname |-> determine_partition_kname(
                       rd.ret.kname,
                       determine_partition_number(vol.id, cfg))])

\* the disk, lvm_partition, dm_crypt and raid branches
named_volume_path(vol, cfg) ==
    IF vol.type = "disk"
    THEN IF vol.serial # "" THEN lookup_disk(vol.serial) ELSE vol.path
    ELSE IF vol.type = "lvm_partition"
    THEN [dir |-> "/dev/" \o GetVol(cfg, vol.volgroup).name,
          kname |-> <<vol.name>>]
    ELSE IF vol.type = "dm_crypt"
    THEN [dir |-> "/dev/mapper",
          kname |-> <<IF vol.dm_name = "" THEN vol.id ELSE vol.dm_name>>]
    ELSE DevPath(<<vol.name>>)

\* the bcache branch, rb being the state after the backing device was
\* resolved: the bcacheN whose slaves directory names the backing device
bcache_volume_path(rb, vol, cfg) ==
    LET hs == {h \in rb.bc.holders : h.backing.kname = rb.ret.kname}
        volume_path == DevPath(<<(CHOOSE h \in hs : TRUE).dev>>)
    IN IF Failed(rb) THEN rb
       ELSE IF hs = {} THEN Raise(rb, "IndexError")
       ELSE Ret(devsync(rb, volume_path), volume_path)

RECURSIVE get_path_to_storage_volume(_, _, _)
get_path_to_storage_volume(r, volume, cfg) ==
    LET vol == GetVol(cfg, volume)
    IN IF Failed(r) THEN r
       ELSE IF ~HasVol(cfg, volume) THEN Raise(r, "ValueError")
       ELSE IF vol.type = "partition"
       THEN partition_volume_path(
                get_path_to_storage_volume(r, vol.device, cfg), vol, cfg)
       ELSE IF vol.type \in {"disk", "lvm_partition", "dm_crypt", "raid"}
       THEN IF \/ vol.type = "disk" /\ named_volume_path(vol, cfg) = NoPath
               \/ vol.type = "lvm_partition" /\ ~HasVol(cfg, vol.volgroup)
            THEN Raise(r, "ValueError")
            ELSE Ret(devsync(r, named_volume_path(vol, cfg)),
                     named_volume_path(vol, cfg))
       ELSE IF vol.type = "bcache"
       THEN bcache_volume_path(
                get_path_to_storage_volume(r, vol.backing_device, cfg), vol, cfg)
       ELSE Raise(r, "NotImplementedError")

-----------------------------------------------------------------------------
(* Kernel view of disks and partitions                                     *)

\* the disk a partition kname belongs to
DiskOf(part) == SubSeq(part, 1, Len(part) - 1)

HasPart(k, part) == \E e \in k : e.part = part

PartEntry(k, part) == CHOOSE e \in k : e.part = part

PtabOf(pt, disk) == IF disk \in DOMAIN pt THEN pt[disk] ELSE ""

SetPtab(pt, disk, v) ==
    [d \in DOMAIN pt \cup {disk} |-> IF d = disk THEN v ELSE pt[d]]

\* logical sector size the handler works with: the kernel's, 512 if unreadable
LbsOf(disk) == IF disk \in DOMAIN lbs /\ lbs[disk] # 0 THEN lbs[disk] ELSE 512

\* a new label or a wipe leaves the disk without partitions
DropParts(r, disk, newptab) ==
    IF Failed(r) THEN r
    ELSE [r EXCEPT !.kern = {e \in @ : DiskOf(e.part) # disk},
                   !.devs = {d \in @ : ~(d.dir = "/dev" /\ Len(d.kname) > 0
                                          /\ DiskOf(d.kname) = disk)},
                   !.ptab = SetPtab(@, disk, newptab)]

-----------------------------------------------------------------------------
(* Naming subsystem                                                        *)

\* the rule file is written, r being the state after the identifier queries
make_dname_rule(r, volume, vol, cfg) ==
    IF Failed(r) THEN r
    ELSE [r EXCEPT !.rules = @ \cup
            {[file |-> volume,
              dname |-> IF vol.type = "partition"
                        THEN GetVol(cfg, vol.device).name \o "-part" \o
                             ToString(determine_partition_number(volume, cfg))
                        ELSE IF vol.type = "lvm_partition"
                        THEN GetVol(cfg, vol.volgroup).name \o "-" \o vol.name
                        ELSE vol.name]}]

\* faulty variant: a disk or partition without a PTUUID / PARTUUID is an error
make_dname_ident_raises(r, volume, vol, cfg) ==
    IF Failed(r) THEN r
    ELSE IF vol.type = "disk" /\ PtabOf(r.ptab, r.ret.kname) = ""
    THEN Raise(r, "ValueError")
    ELSE IF vol.type = "partition" /\ ~HasPart(r.kern, r.ret.kname)
    THEN Raise(r, "ValueError")
    ELSE make_dname_rule(
             IF vol.type = "raid"
             THEN Run(r, Cmd("mdadm", "query-detail", r.ret)) ELSE r,
             volume, vol, cfg)

\* r is the state after blkid was called on a disk or partition: a PTUUID /
\* PARTUUID line is printed for a labelled disk and for an existing
\* partition; without it the function returns without a rule
make_dname_ident(r, volume, vol, cfg) ==
    IF Failed(r) THEN r
    ELSE IF vol.type = "disk" /\ PtabOf(r.ptab, r.ret.kname) = "" THEN r
    ELSE IF vol.type = "partition" /\ ~HasPart(r.kern, r.ret.kname) THEN r
    ELSE make_dname_rule(
             IF vol.type = "raid"
             THEN Run(r, Cmd("mdadm", "query-detail", r.ret)) ELSE r,
             volume, vol, cfg)

\* r is the state after the path of the volume was resolved
make_dname_path(r, volume, vol, cfg) ==
    IF Failed(r) THEN r
    ELSE make_dname_ident(
             IF vol.type \in {"partition", "disk"}
             THEN subp_retries(r, Cmd("blkid", "export", r.ret), 3) ELSE r,
             volume, vol, cfg)

make_dname(r, volume, cfg) ==
    make_dname_path(get_path_to_storage_volume(r, volume, cfg), volume,
                    GetVol(cfg, volume), cfg)

-----------------------------------------------------------------------------
(* disk_handler                                                            *)

\* util.wipe_volume of a partition inside the loop: an I/O error is forgiven
wipe_forgiving(r, dev, mode) ==
    IF Failed(r) THEN r ELSE [Run(r, Cmd("wipe", mode, dev)) EXCEPT !.err = ""]

\* the wipe loop over /sys/block/<disk>/*/partition: holders are cleared and
\* the partition is wiped
RECURSIVE WipeParts(_, _, _)
WipeParts(r, parts, mode) ==
    IF parts = {} \/ Failed(r) THEN r
    ELSE LET e == CHOOSE x \in parts : TRUE
         IN WipeParts(
                wipe_forgiving(
                    Run(r, Cmd("clear_holders", "check_clear", DevPath(e.part))),
                    DevPath(e.part), mode),
                parts \ {e}, mode)

\* preserve: r is the state after blkid was asked for the table type
disk_handler_preserve(r, disk, ptable) ==
    IF Failed(r) THEN [r EXCEPT !.err = "ValueError"]
    ELSE IF PtabOf(r.ptab, disk.kname) = "" THEN Raise(r, "IndexError")
    ELSE IF \/ PtabOf(r.ptab, disk.kname) = "dos" /\ ptable # "msdos"
            \/ PtabOf(r.ptab, disk.kname) = "gpt" /\ ptable # "gpt"
         THEN Raise(r, "ValueError")
    ELSE r

\* the wipe block
disk_handler_wipe(r, disk, info) ==
    IF info.wipe \in {"", "none"} THEN r
    ELSE DropParts(
             Run(Run(WipeParts(Run(r, Cmd("mdadm", "assemble-scan", NoPath)),
                               {e \in r.kern : DiskOf(e.part) = disk.kname},
                               info.wipe),
                     Cmd("clear_holders", "check_clear", disk)),
                 Cmd("wipe", info.wipe, disk)),
             disk.kname, "")

\* the partition table block, r being the state after the wipe block
disk_handler_ptable(r, disk, info) ==
    IF info.ptable = "gpt"
    THEN DropParts(Run(r, Cmd("sgdisk", "clear", disk)), disk.kname, "gpt")
    ELSE IF info.ptable = "msdos"
    THEN DropParts(Run(r, Cmd("parted", "mklabel", disk)), disk.kname, "dos")
    ELSE r

\* the dname block, r being the state after the partition table block
disk_handler_name(r, info, cfg) ==
    IF Failed(r) THEN r
    ELSE IF info.name # "" THEN make_dname(r, info.id, cfg)
    ELSE r

\* r is the state after the disk's path was resolved
disk_handler_disk(r, info, cfg) ==
    IF Failed(r) THEN r
    ELSE IF info.preserve
    THEN IF info.ptable = "" THEN r
         ELSE disk_handler_preserve(Run(r, Cmd("blkid", "export", r.ret)),
                                    r.ret, info.ptable)
    ELSE disk_handler_name(
             disk_handler_ptable(disk_handler_wipe(r, r.ret, info), r.ret, info),
             info, cfg)

disk_handler(r, info, cfg) ==
    disk_handler_disk(get_path_to_storage_volume(r, info.id, cfg), info, cfg)

-----------------------------------------------------------------------------
(* Geometry calculator and partition_handler                               *)

\* int(length_bytes / logical_block_size_bytes) for a declared size kept in
\* KiB (2GB = 2097152 KiB) and a sector size that is a power of two
SectorsOf(kib, S) == IF S <= 1024 THEN kib * (1024 \div S)
                                  ELSE kib \div (S \div 1024)

\* faulty variant: the alignment is taken in 512-byte sectors whatever the
\* sector size is
AlignmentOffset_512(S) == 1048576 \div 512

\* int((1 << 20) / logical_block_size_bytes)
AlignmentOffset(S) == 1048576 \div S

\* the declarations of partitions of the device flagged extended
ExtendedOf(device, cfg) ==
    {i \in 1..Len(cfg) : /\ cfg[i].type = "partition"
                         /\ cfg[i].device = device
                         /\ cfg[i].flag = "extended"}

\* number of the partition whose /sys/block entry is read as "previous": the
\* first extended partition of the device for partition 5 of an msdos disk,
\* find_previous_partition otherwise
PreviousNumber(info, cfg) ==
    IF determine_partition_number(info.id, cfg) = 5
       /\ GetVol(cfg, info.device).ptable = "msdos"
    THEN LET ext == ExtendedOf(info.device, cfg)
         IN determine_partition_number(
                cfg[CHOOSE i \in ext : \A j \in ext : i <= j].id, cfg)
    ELSE find_previous_partition(info.device, info.id, cfg)

\* int(v) * 512 / logical_block_size_bytes for a sysfs value v in 512-byte
\* units; the sector size is a multiple of 512
FromSysfs(v, S) == v \div (S \div 512)

\* the sysfs value (512-byte units) of a count of sectors
ToSysfs(sectors, S) == sectors * (S \div 512)

\* start sector of the partition, given the previous partition's sysfs entry
\* (512-byte units) and the sector size
OffsetSectors(partnumber, disk_ptable, flag, prev, S) ==
    IF partnumber = 1 THEN AlignmentOffset(S)
    ELSE IF disk_ptable = "gpt" \/ flag # "logical"
         THEN FromSysfs(prev.start, S) + FromSysfs(prev.size, S)
    ELSE IF partnumber = 5
         THEN FromSysfs(prev.start, S) + AlignmentOffset(S)
    ELSE FromSysfs(prev.start, S) + FromSysfs(prev.size, S)
         + AlignmentOffset(S)

\* faulty variant: an extended partition is given one alignment unit, not
\* one per logical partition
LengthSectors_oneunit(info, cfg, S) ==
    IF info.flag = "extended"
    THEN SectorsOf(info.size, S) - 1 + AlignmentOffset(S)
    ELSE SectorsOf(info.size, S) - 1

LengthSectors(info, cfg, S) ==
    IF info.flag = "extended"
    THEN SectorsOf(info.size, S) - 1
         + getnumberoflogicaldisks(info.device, cfg) * AlignmentOffset(S)
    ELSE SectorsOf(info.size, S) - 1

\* partnumber, offset_sectors and length_sectors of one partition_handler run
Geometry(info, cfg, prev, S) ==
    [vol |-> info.id,
     partition_number |-> determine_partition_number(info.id, cfg),
     start_sector |-> OffsetSectors(determine_partition_number(info.id, cfg),
                                    GetVol(cfg, info.device).ptable,
                                    info.flag, prev, S),
     length_sector |-> LengthSectors(info, cfg, S)]

\* parted mkpart / sgdisk --new has run: the tool refuses a number that is
\* taken and an empty range, otherwise the kernel shows the new partition
AddPart(r, part, g, S) ==
    IF Failed(r) THEN r
    ELSE IF HasPart(r.kern, part) \/ g.length_sector < 0
    THEN Raise(r, "ProcessExecutionError")
    ELSE [r EXCEPT !.kern = @ \cup {[part |-> part,
                                     start |-> ToSysfs(g.start_sector, S),
                                     size |-> ToSysfs(g.length_sector + 1, S)]},
                   !.devs = @ \cup {DevPath(part)}]

\* the command that creates the partition, r.ret being the disk
partition_handler_create(r, info, cfg, g, S) ==
    IF GetVol(cfg, info.device).ptable = "msdos"
    THEN AddPart(Run(r, [Cmd("parted", "mkpart", r.ret)
                         EXCEPT !.name = IF info.flag \in {"extended", "logical",
                                                           "primary"}
                                         THEN info.flag ELSE "primary",
                                !.num = g.partition_number,
                                !.from = g.start_sector,
                                !.to = g.start_sector + g.length_sector]),
                 determine_partition_kname(r.ret.kname, g.partition_number),
                 g, S)
    ELSE IF GetVol(cfg, info.device).ptable = "gpt"
    THEN AddPart(Run(r, [Cmd("sgdisk", "new", r.ret)
                         EXCEPT !.num = g.partition_number,
                                !.from = g.start_sector,
                                !.to = g.length_sector + g.start_sector]),
                 determine_partition_kname(r.ret.kname, g.partition_number),
                 g, S)
    ELSE Raise(r, "ValueError")

\* block.wipe_volume(path, mode), r.ret being the path
wipe_volume(r, mode) == Run(r, Cmd("wipe", mode, r.ret))

\* the wipe block wiping the node the kernel is expected to create, without
\* waiting for it
partition_handler_wipe_nosync(r, info, cfg) ==
    IF info.wipe \notin {"", "none"} /\ info.flag # "extended"
    THEN wipe_volume(
             Ret(r, DevPath(determine_partition_kname(
                                r.ret.kname,
                                determine_partition_number(info.id, cfg)))),
             info.wipe)
    ELSE r

\* the wipe block, r being the state after the partition was created
partition_handler_wipe(r, info, cfg) ==
    IF info.wipe \notin {"", "none"} /\ info.flag # "extended"
    THEN wipe_volume(get_path_to_storage_volume(r, info.id, cfg), info.wipe)
    ELSE r

\* the dname block, r being the state after the wipe block
partition_handler_name(r, info, cfg) ==
    IF Failed(r) THEN r
    ELSE IF /\ GetVol(cfg, info.device).name # ""
            /\ ~(GetVol(cfg, info.device).ptable = "msdos"
                 /\ info.flag = "extended")
    THEN make_dname(r, info.id, cfg)
    ELSE r

\* faulty variant of the preserve block: the error is raised for a preserved
\* partition of a disk that is not preserved, and a partition that is not
\* preserved is created whatever its disk says
partition_handler_preserve_swapped(r, info, cfg, g, S) ==
    IF info.preserve
    THEN IF GetVol(cfg, info.device).preserve THEN r
         ELSE Raise(r, "NotImplementedError")
    ELSE partition_handler_name(
             partition_handler_wipe(
                 partition_handler_create(r, info, cfg, g, S), info, cfg),
             info, cfg)

\* the preserve block and what follows it, r being the state after the
\* geometry g was computed
partition_handler_preserve(r, info, cfg, g, S) ==
    IF info.preserve THEN r
    ELSE IF GetVol(cfg, info.device).preserve
    THEN Raise(r, "NotImplementedError")
    ELSE partition_handler_name(
             partition_handler_wipe(
                 partition_handler_create(r, info, cfg, g, S), info, cfg),
             info, cfg)

\* the geometry is computed from the previous partition's sysfs entry
partition_handler_geometry(r, info, cfg, prev, S) ==
    partition_handler_preserve(
        [r EXCEPT !.geom = Append(@, Geometry(info, cfg, prev, S))],
        info, cfg, Geometry(info, cfg, prev, S), S)

\* r is the state after the disk was resolved (twice): the previous
\* partition's start and size are read from /sys/block
\* faulty variant: a predecessor that is not in sysfs is read as start 0 and
\* size 0
partition_handler_previous_lenient(r, info, cfg) ==
    IF Failed(r) THEN r
    ELSE IF determine_partition_number(info.id, cfg) <= 1
    THEN partition_handler_geometry(r, info, cfg,
             [part |-> <<>>, start |-> 0, size |-> 0], LbsOf(r.ret.kname))
    ELSE IF /\ determine_partition_number(info.id, cfg) = 5
            /\ GetVol(cfg, info.device).ptable = "msdos"
            /\ ExtendedOf(info.device, cfg) = {}
    THEN Raise(r, "UnboundLocalError")
    ELSE IF ~HasPart(r.kern, determine_partition_kname(
                                 r.ret.kname, PreviousNumber(info, cfg)))
    THEN partition_handler_geometry(r, info, cfg,
             [part |-> <<>>, start |-> 0, size |-> 0], LbsOf(r.ret.kname))
    ELSE partition_handler_geometry(r, info, cfg,
             PartEntry(r.kern, determine_partition_kname(
                                   r.ret.kname, PreviousNumber(info, cfg))),
             LbsOf(r.ret.kname))

partition_handler_previous(r, info, cfg) ==
    IF Failed(r) THEN r
    ELSE IF determine_partition_number(info.id, cfg) <= 1
    THEN partition_handler_geometry(r, info, cfg,
             [part |-> <<>>, start |-> 0, size |-> 0], LbsOf(r.ret.kname))
    ELSE IF /\ determine_partition_number(info.id, cfg) = 5
            /\ GetVol(cfg, info.device).ptable = "msdos"
            /\ ExtendedOf(info.device, cfg) = {}
    THEN Raise(r, "UnboundLocalError")
    ELSE IF ~HasPart(r.kern, determine_partition_kname(
                                 r.ret.kname, PreviousNumber(info, cfg)))
    THEN Raise(r, "IOError")
    ELSE partition_handler_geometry(r, info, cfg,
             PartEntry(r.kern, determine_partition_kname(
                                   r.ret.kname, PreviousNumber(info, cfg))),
             LbsOf(r.ret.kname))

\* the checks of the arguments before the disk is resolved
partition_handler_args(r, info, cfg) ==
    IF ~HasVol(cfg, info.device) THEN Raise(r, "AttributeError")
    ELSE IF info.device = "" \/ info.size = 0 THEN Raise(r, "ValueError")
    ELSE r

partition_handler(r, info, cfg) ==
    partition_handler_previous(
        get_path_to_storage_volume(
            get_path_to_storage_volume(partition_handler_args(r, info, cfg),
                                       info.device, cfg),
            info.device, cfg),
        info, cfg)

-----------------------------------------------------------------------------
(* format_handler and mount_handler                                        *)

\* r is the state after the volume was resolved
format_handler_mkfs(r, info) ==
    IF Failed(r) \/ info.preserve THEN r
    ELSE Run(r, Cmd("mkfs", info.fstype, r.ret))

format_handler(r, info, cfg) ==
    format_handler_mkfs(
        get_path_to_storage_volume(
            IF info.volume = "" THEN Raise(r, "ValueError") ELSE r,
            info.volume, cfg),
        info)

\* a mount point is [dir, kname]: its leading slashes and the rest of it
MountPoint(path) == IF path.kname = <<>> THEN "" ELSE path.kname[1]

\* the line appended to fstab
FstabLine(location, info, filesystem) ==
    [location |-> location,
     path |-> IF filesystem.fstype = "swap" THEN "none"
              ELSE "/" \o MountPoint(info.path),
     fstype |-> IF filesystem.fstype \in
                      {"fat", "fat12", "fat16", "fat32", "fat64"}
                THEN "vfat" ELSE filesystem.fstype,
     options |-> IF filesystem.fstype = "swap" THEN "sw" ELSE "defaults"]

\* faulty variant: the line is put in front of the lines already there
mount_handler_write_front(r, location, info, filesystem) ==
    IF Failed(r) THEN r
    ELSE [r EXCEPT !.files.fstab =
              <<FstabLine(location, info, filesystem)>> \o @]

\* fp.write, r being the state after the location was determined
mount_handler_write(r, location, info, filesystem) ==
    IF Failed(r) THEN r
    ELSE [r EXCEPT !.files.fstab =
              Append(@, FstabLine(location, info, filesystem))]

\* the location by path, r.ret being the path the volume resolved to again
mount_handler_location(r, info, filesystem) ==
    mount_handler_write(r, [kind |-> "path", dev |-> r.ret], info, filesystem)

\* faulty variant of the fstab block: a disk is written by UUID as well
mount_handler_fstab_diskuuid(r, volume_path, info, cfg) ==
    IF Failed(r) \/ ~state.fstab THEN r
    ELSE IF GetVol(cfg, GetVol(cfg, info.device).volume).type
                \in {"raid", "bcache", "lvm_partition"}
    THEN mount_handler_location(
             get_path_to_storage_volume(r, GetVol(cfg, info.device).volume, cfg),
             info, GetVol(cfg, info.device))
    ELSE IF GetVol(cfg, GetVol(cfg, info.device).volume).type
                \in {"disk", "partition", "dm_crypt"}
    THEN mount_handler_write(Run(r, Cmd("blkid", "uuid", volume_path)),
                             [kind |-> "UUID", dev |-> volume_path],
                             info, GetVol(cfg, info.device))
    ELSE Raise(r, "ValueError")

\* the fstab block, r being the state after the mount
mount_handler_fstab(r, volume_path, info, cfg) ==
    IF Failed(r) \/ ~state.fstab THEN r
    ELSE IF GetVol(cfg, GetVol(cfg, info.device).volume).type
                \in {"raid", "bcache", "disk", "lvm_partition"}
    THEN mount_handler_location(
             get_path_to_storage_volume(r, GetVol(cfg, info.device).volume, cfg),
             info, GetVol(cfg, info.device))
    ELSE IF GetVol(cfg, GetVol(cfg, info.device).volume).type
                \in {"partition", "dm_crypt"}
    THEN mount_handler_write(Run(r, Cmd("blkid", "uuid", volume_path)),
                             [kind |-> "UUID", dev |-> volume_path],
                             info, GetVol(cfg, info.device))
    ELSE Raise(r, "ValueError")

\* the mount block, r being the state after the volume was resolved; leading
\* slashes are stripped before the mount point is joined to the target
mount_handler_mount(r, info, cfg) ==
    IF Failed(r) THEN r
    ELSE mount_handler_fstab(
             IF GetVol(cfg, info.device).fstype = "swap" THEN r
             ELSE Run(r, [Cmd("mount", "", r.ret)
                          EXCEPT !.name = "target/" \o MountPoint(info.path)]),
             r.ret, info, cfg)

mount_handler(r, info, cfg) ==
    mount_handler_mount(
        get_path_to_storage_volume(
            IF ~HasVol(cfg, info.device) THEN Raise(r, "AttributeError")
            ELSE IF info.path = NoPath
                    /\ GetVol(cfg, info.device).fstype # "swap"
            THEN Raise(r, "ValueError")
            ELSE r,
            GetVol(cfg, info.device).volume, cfg),
        info, cfg)

-----------------------------------------------------------------------------
(* LVM handlers                                                            *)

\* Python's `a in b` on the names that occur in the declarations
IsSubstr(a, b) == a = b \/ <<a, b>> \in {<<"vg1", "vg10">>, <<"lv1", "lv10">>}

Range(f) == {f[i] : i \in DOMAIN f}

RECURSIVE ResolveAll(_, _, _, _)
\* one element of the list has been resolved
ResolveNext(r, ids, cfg, acc) == ResolveAll(r, ids, cfg, Append(acc, r.ret))

\* list(get_path_to_storage_volume(dev, cfg) for dev in ids): the paths
\* resolved so far are kept in acc
ResolveAll(r, ids, cfg, acc) ==
    IF ids = <<>> \/ Failed(r) THEN [r |-> r, paths |-> acc]
    ELSE ResolveNext(get_path_to_storage_volume(r, Head(ids), cfg),
                     Tail(ids), cfg, acc)

\* preserve: r is the state after vgchange and pvdisplay
lvm_volgroup_handler_preserve(r, device_paths, name) ==
    IF Failed(r) THEN r
    ELSE IF {x.pv : x \in {l \in r.lvm.pvs : IsSubstr(name, l.vg)}}
                # Range(device_paths)
    THEN Raise(r, "ValueError")
    ELSE r

\* create: r is the state after vgcreate
lvm_volgroup_handler_create(r, device_paths, name) ==
    IF Failed(r) THEN r
    ELSE [r EXCEPT !.lvm.pvs = @ \cup {[vg |-> name, pv |-> dp] :
                                       dp \in Range(device_paths)}]

\* res is the outcome of the loop over the devices
lvm_volgroup_handler_devices(res, info) ==
    IF Failed(res.r) THEN res.r
    ELSE IF info.preserve
    THEN lvm_volgroup_handler_preserve(
             Run(Run(res.r, Cmd("vgchange", "activate", NoPath)),
                 Cmd("pvdisplay", "", NoPath)),
             res.paths, info.name)
    ELSE lvm_volgroup_handler_create(
             Run(res.r, [Cmd("vgcreate", "", NoPath) EXCEPT !.name = info.name]),
             res.paths, info.name)

\* a device id missing from the graph raises ValueError where the loop stands
lvm_volgroup_handler(r, info, cfg) ==
    lvm_volgroup_handler_devices(
        ResolveAll(IF info.devices = <<>> \/ info.name = ""
                   THEN Raise(r, "ValueError") ELSE r,
                   info.devices, cfg, <<>>),
        info)

\* preserve: r is the state after lvdisplay
lvm_partition_handler_preserve(r, name, volgroup) ==
    IF Failed(r) THEN r
    ELSE IF ~\E l \in r.lvm.lvs :
                (IsSubstr(name, l.lv) \/ IsSubstr(name, l.vg))
                /\ volgroup = l.vg
    THEN Raise(r, "ValueError")
    ELSE r

\* create: r is the state after lvcreate
lvm_partition_handler_create(r, name, volgroup) ==
    IF Failed(r) THEN r
    ELSE [r EXCEPT !.lvm.lvs = @ \cup {[lv |-> name, vg |-> volgroup]},
                   !.devs = @ \cup {[dir |-> "/dev/" \o volgroup,
                                     kname |-> <<name>>]}]

\* the ptable check and the dname, r being the state after preserve / create
lvm_partition_handler_name(r, info, cfg) ==
    IF Failed(r) THEN r
    ELSE IF info.ptable # "" THEN Raise(r, "ValueError")
    ELSE make_dname(r, info.id, cfg)

\* faulty variant: a logical volume that is not preserved is created whether
\* or not its volume group is preserved
lvm_partition_handler_norule(r, info, cfg) ==
    IF ~HasVol(cfg, info.volgroup) THEN Raise(r, "AttributeError")
    ELSE IF GetVol(cfg, info.volgroup).name = "" \/ info.name = ""
    THEN Raise(r, "ValueError")
    ELSE lvm_partition_handler_name(
             IF info.preserve
             THEN lvm_partition_handler_preserve(
                      Run(r, Cmd("lvdisplay", "", NoPath)),
                      info.name, GetVol(cfg, info.volgroup).name)
             ELSE lvm_partition_handler_create(
                      Run(r, [Cmd("lvcreate",
                                  IF info.size # 0 THEN "-L" ELSE "-l", NoPath)
                              EXCEPT !.name = GetVol(cfg, info.volgroup).name
                                              \o "/" \o info.name]),
                      info.name, GetVol(cfg, info.volgroup).name),
             info, cfg)

lvm_partition_handler(r, info, cfg) ==
    IF ~HasVol(cfg, info.volgroup) THEN Raise(r, "AttributeError")
    ELSE IF GetVol(cfg, info.volgroup).name = "" \/ info.name = ""
    THEN Raise(r, "ValueError")
    ELSE lvm_partition_handler_name(
             IF info.preserve
             THEN lvm_partition_handler_preserve(
                      Run(r, Cmd("lvdisplay", "", NoPath)),
                      info.name, GetVol(cfg, info.volgroup).name)
             ELSE IF GetVol(cfg, info.volgroup).preserve
             THEN Raise(r, "NotImplementedError")
             ELSE lvm_partition_handler_create(
                      Run(r, [Cmd("lvcreate",
                                  IF info.size # 0 THEN "-L" ELSE "-l", NoPath)
                              EXCEPT !.name = GetVol(cfg, info.volgroup).name
                                              \o "/" \o info.name]),
                      info.name, GetVol(cfg, info.volgroup).name),
             info, cfg)

-----------------------------------------------------------------------------
(* dm_crypt_handler                                                        *)

\* faulty variant: the mapping is always named after the volume id
DmName_id(info) == info.id

\* dm_name, or the id when it is not set
DmName(info) == IF info.dm_name = "" THEN info.id ELSE info.dm_name

\* the crypttab line, r being the state after get_volume_uuid
dm_crypt_handler_write(r, volume_path, info) ==
    IF Failed(r) THEN r
    ELSE [r EXCEPT !.files.crypttab =
              Append(@, [dm_name |-> DmName(info), uuid_of |-> volume_path])]

\* r is the state after the two cryptsetup calls: the mapping appears,
\* os.remove(tmp_keyfile), then the crypttab block
dm_crypt_handler_opened(r, volume_path, info) ==
    IF Failed(r) THEN r
    ELSE IF ~state.fstab
    THEN [r EXCEPT !.devs = @ \cup {[dir |-> "/dev/mapper",
                                     kname |-> <<DmName(info)>>]},
                   !.files.keyfiles = @ - 1]
    ELSE dm_crypt_handler_write(
             Run([r EXCEPT !.devs = @ \cup {[dir |-> "/dev/mapper",
                                             kname |-> <<DmName(info)>>]},
                           !.files.keyfiles = @ - 1],
                 Cmd("blkid", "uuid", volume_path)),
             volume_path, info)

\* r is the state after the volume was resolved: tempfile.mkstemp() and the
\* key written to it, luksFormat, open
dm_crypt_handler_volume(r, info) ==
    IF Failed(r) THEN r
    ELSE dm_crypt_handler_opened(
             Run(Run([r EXCEPT !.files.keyfiles = @ + 1],
                     Cmd("cryptsetup", "luksFormat", r.ret)),
                 [Cmd("cryptsetup", "open", r.ret)
                  EXCEPT !.name = DmName(info)]),
             r.ret, info)

dm_crypt_handler(r, info, cfg) ==
    dm_crypt_handler_volume(
        get_path_to_storage_volume(
            IF info.volume = "" \/ info.key = "" THEN Raise(r, "ValueError")
            ELSE r,
            info.volume, cfg),
        info)

-----------------------------------------------------------------------------
(* raid_handler                                                            *)

RaidLevels == {"linear", "raid0", "0", "stripe", "raid1", "1", "mirror",
               "raid4", "4", "raid5", "5", "raid6", "6", "raid10", "10"}

\* a declared id read as a device name, which is what mdadm.md_check does
\* with whatever list it is handed
AsPath(id) == IF id = "/dev/sdb" THEN DevPath(<<"sd", "b">>)
              ELSE [dir |-> "", kname |-> <<id>>]

\* mdadm.md_check: the array is up and made of exactly these devices and spares
md_check(m, devices, spares) ==
    m.up /\ m.members = devices /\ m.spares = spares

\* mdadm --assemble has run: the kernel shows what the members' superblocks
\* describe
mdadm_assemble(r) == IF Failed(r) THEN r ELSE [r EXCEPT !.md = mdAfter]

\* mdadm --create has run
mdadm_create(r, md_devname, device_paths, spare_device_paths) ==
    IF Failed(r) THEN r
    ELSE [r EXCEPT !.md = [up |-> TRUE, members |-> Range(device_paths),
                           spares |-> Range(spare_device_paths)],
                   !.devs = @ \cup {md_devname}]

\* mdadm --detail --scan has run and mdadm.conf is written
mdadm_detail_scan(r) ==
    IF Failed(r) THEN r ELSE [r EXCEPT !.files.mdadm_conf = TRUE]

\* preserve: the second check, r being the state after the assemble; it is
\* handed the declared ids, not the paths they resolved to
raid_handler_assembled(r, devices, spare_device_paths) ==
    IF Failed(r) THEN r
    ELSE IF ~md_check(r.md, {AsPath(devices[i]) : i \in DOMAIN devices},
                      Range(spare_device_paths))
    THEN Raise(r, "ValueError")
    ELSE r

\* the ptable block, r being the state after the mdadm.conf block
raid_handler_ptable(r, info, cfg) ==
    IF Failed(r) THEN r
    ELSE IF info.ptable # "" THEN disk_handler(r, info, cfg)
    ELSE r

\* the mdadm.conf block, r being the state after the dname
raid_handler_conf(r, info, cfg) ==
    raid_handler_ptable(
        IF Failed(r) \/ ~state.fstab THEN r
        ELSE mdadm_detail_scan(Run(r, Cmd("mdadm", "detail-scan", NoPath))),
        info, cfg)

\* sres is the outcome of resolving the spare devices
raid_handler_paths(sres, device_paths, info, cfg) ==
    IF Failed(sres.r) THEN sres.r
    ELSE IF info.preserve
    THEN IF md_check(sres.r.md, Range(device_paths), Range(sres.paths))
         THEN sres.r
         ELSE raid_handler_assembled(
                  mdadm_assemble(
                      Run(sres.r, [Cmd("mdadm", "assemble",
                                       DevPath(<<info.name>>))
                                   EXCEPT !.name = info.name])),
                  info.devices, sres.paths)
    ELSE raid_handler_conf(
             make_dname(
                 mdadm_create(
                     Run(sres.r, [Cmd("mdadm", "create", DevPath(<<info.name>>))
                                  EXCEPT !.name = info.name]),
                     DevPath(<<info.name>>), device_paths, sres.paths),
                 info.id, cfg),
             info, cfg)

\* dres is the outcome of resolving the devices
raid_handler_devices(dres, info, cfg) ==
    raid_handler_paths(ResolveAll(dres.r, info.spare_devices, cfg, <<>>),
                       dres.paths, info, cfg)

\* faulty variant: the raid level and the spares are looked at only after
\* the member devices were resolved
raid_handler_late(r, info, cfg) ==
    raid_handler_devices(
        [ResolveAll(IF info.devices = <<>> THEN Raise(r, "ValueError") ELSE r,
                    info.devices, cfg, <<>>)
         EXCEPT !.r = IF info.raidlevel \notin RaidLevels
                         \/ (/\ info.raidlevel \in {"linear", "raid0", "0",
                                                    "stripe"}
                             /\ info.spare_devices # <<>>)
                      THEN Raise(@, "ValueError") ELSE @],
        info, cfg)

raid_handler(r, info, cfg) ==
    raid_handler_devices(
        ResolveAll(
            IF info.devices = <<>> THEN Raise(r, "ValueError")
            ELSE IF info.raidlevel \notin RaidLevels THEN Raise(r, "ValueError")
            ELSE IF info.raidlevel \in {"linear", "raid0", "0", "stripe"}
                    /\ info.spare_devices # <<>>
            THEN Raise(r, "ValueError")
            ELSE r,
            info.devices, cfg, <<>>),
        info, cfg)

-----------------------------------------------------------------------------
(* bcache_handler                                                          *)

MaxRetry == 5     \* `if retry < 5` in ensure_bcache_is_registered

\* os.path.exists(expected) for a cache set / a backing device's bcache dir
Registered(b, dev, kind) ==
    IF kind = "cache" THEN dev \in b.csets ELSE dev \in b.backing

\* the device shows up in sysfs; a backing device gets its bcacheN holder
Register(r, dev, kind) ==
    IF kind = "cache" THEN [r EXCEPT !.bc.csets = @ \cup {dev}]
    ELSE [r EXCEPT !.bc.backing = @ \cup {dev},
                   !.bc.holders = @ \cup {[backing |-> dev, dev |-> "bcache0"]},
                   !.devs = @ \cup {DevPath(<<"bcache0">>)}]

\* clear_holders.get_holders(dev)
get_holders(r, dev) ==
    {h.dev : h \in {x \in r.bc.holders : x.backing = dev}}
    \cup (IF r.env.holders THEN {"bcache0"} ELSE {})

\* register_bcache(dev) then udevadm_settle: the first env.ioerrs writes to
\* /sys/fs/bcache/register raise IOError
register_bcache(r, dev, kind) ==
    IF r.env.ioerrs > 0
    THEN [r EXCEPT !.env.ioerrs = @ - 1,
                   !.cmds = Append(@, [Cmd("sysfs", "register", dev)
                                       EXCEPT !.failed = TRUE]),
                   !.err = "IOError"]
    ELSE Run(IF r.env.regworks
             THEN Register([r EXCEPT !.cmds = Append(@, Cmd("sysfs", "register",
                                                            dev))],
                           dev, kind)
             ELSE [r EXCEPT !.cmds = Append(@, Cmd("sysfs", "register", dev))],
             Cmd("udevadm", "settle", dev))

RECURSIVE ensure_bcache_is_registered(_, _, _, _)
\* the inner except clause, r being the state after the registration attempt
ensure_bcache_is_registered_retry(r, dev, kind, retry) ==
    IF ~Failed(r) THEN r
    ELSE IF retry < MaxRetry
    THEN ensure_bcache_is_registered([r EXCEPT !.err = ""], dev, kind,
                                     retry + 1)
    ELSE [r EXCEPT !.err = "ValueError"]

\* r is the state after the settle of the try block: the expected path is
\* looked for, then the holders; OSError and ValueError lead to the except
\* clause, which registers the device
ensure_bcache_is_registered_try(r, dev, kind, retry) ==
    IF ~Failed(r) /\ Registered(r.bc, dev, kind) THEN r
    ELSE IF ~Failed(r) /\ get_holders(r, dev) # {} THEN r
    ELSE ensure_bcache_is_registered_retry(
             register_bcache([r EXCEPT !.err = ""], dev, kind),
             dev, kind, retry)

\* udev has settled: with env.autoreg its rules have registered the device
udev_registers(r, dev, kind) ==
    IF ~Failed(r) /\ r.env.autoreg THEN Register(r, dev, kind) ELSE r

ensure_bcache_is_registered(r, bcache_device, kind, retry) ==
    IF Failed(r) THEN r
    ELSE ensure_bcache_is_registered_try(
             udev_registers(Run(r, Cmd("udevadm", "settle", bcache_device)),
                            bcache_device, kind),
             bcache_device, kind, retry)

\* the ptable check, r being the state after the dname
bcache_handler_ptable(r, info) ==
    IF Failed(r) THEN r
    ELSE IF info.ptable # "" THEN Raise(r, "ValueError")
    ELSE r

\* r is the state after the backing device was registered: holders, attach,
\* cache_mode, dname
bcache_handler_attach(r, backing_device, info, cfg) ==
    IF Failed(r) THEN r
    ELSE IF Cardinality(get_holders(r, backing_device)) # 1
    THEN Raise(r, "ValueError")
    ELSE IF ~Registered(r.bc, backing_device, "backing")
    THEN Raise(r, "IOError")
    ELSE bcache_handler_ptable(
             IF info.name # ""
             THEN make_dname(
                      [r EXCEPT !.cmds = @ \o
                          <<Cmd("sysfs", "attach", backing_device)>> \o
                          (IF info.cache_mode = "" THEN <<>>
                           ELSE <<[Cmd("sysfs", "cache_mode", backing_device)
                                   EXCEPT !.name = info.cache_mode]>>)],
                      info.id, cfg)
             ELSE [r EXCEPT !.cmds = @ \o
                      <<Cmd("sysfs", "attach", backing_device)>> \o
                      (IF info.cache_mode = "" THEN <<>>
                       ELSE <<[Cmd("sysfs", "cache_mode", backing_device)
                               EXCEPT !.name = info.cache_mode]>>)],
             info)

\* r is the state after the cache device was registered
bcache_handler_backing(r, backing_device, info, cfg) ==
    IF Failed(r) THEN r
    ELSE bcache_handler_attach(
             ensure_bcache_is_registered(
                 IF Registered(r.bc, backing_device, "backing") THEN r
                 ELSE Run(r, Cmd("make-bcache", "-B", backing_device)),
                 backing_device, "backing", 0),
             backing_device, info, cfg)

\* r is the state after modprobe and the settle
bcache_handler_cache(r, backing_device, cache_device, info, cfg) ==
    IF Failed(r) THEN r
    ELSE bcache_handler_backing(
             ensure_bcache_is_registered(
                 IF Registered(r.bc, cache_device, "cache")
                 THEN Run(r, Cmd("bcache-super-show", "", cache_device))
                 ELSE Run(r, Cmd("make-bcache", "-C", cache_device)),
                 cache_device, "cache", 0),
             backing_device, info, cfg)

\* r is the state after both devices were resolved, the cache device last
bcache_handler_devices(r, backing_device, info, cfg) ==
    IF Failed(r) THEN r
    ELSE IF backing_device = NoPath \/ r.ret = NoPath
    THEN Raise(r, "ValueError")
    ELSE bcache_handler_cache(
             Run(Run(r, Cmd("modprobe", "bcache", NoPath)),
                 Cmd("udevadm", "settle", NoPath)),
             backing_device, r.ret, info, cfg)

\* r is the state after the backing device was resolved
bcache_handler_resolved(r, info, cfg) ==
    bcache_handler_devices(
        get_path_to_storage_volume(r, info.cache_device, cfg), r.ret, info, cfg)

bcache_handler(r, info, cfg) ==
    bcache_handler_resolved(
        get_path_to_storage_volume(r, info.backing_device, cfg), info, cfg)

-----------------------------------------------------------------------------
(* Dispatcher: meta_custom                                                 *)

\* faulty variant of the insertion: the first declaration of an id stays
SetItem_first(od, d) ==
    IF \E i \in 1..Len(od) : od[i].id = d.id THEN od ELSE Append(od, d)

\* OrderedDict.__setitem__: the value of a key that is there is replaced in
\* place, a new key is put last
SetItem(od, d) ==
    IF \E i \in 1..Len(od) : od[i].id = d.id
    THEN [od EXCEPT ![CHOOSE i \in 1..Len(od) : od[i].id = d.id] = d]
    ELSE Append(od, d)

\* OrderedDict((d["id"], d) for d in scfg), od being the dict so far
RECURSIVE FromPairs(_, _)
FromPairs(od, scfg) ==
    IF scfg = <<>> THEN od
    ELSE FromPairs(SetItem(od, Head(scfg)), Tail(scfg))

\* the dict of a declaration list that is not empty, as the sequence of its
\* values in key order
extract_storage_ordered_dict(scfg) == FromPairs(<<>>, scfg)

\* error: the exception that left meta_custom: its kind, the declaration
\* the loop stood at (vol) and, for the error of an unknown type, the value
\* its message is formatted with (arg)
NoError == [vol |-> "", kind |-> "", arg |-> ""]


\* the commands of one handler invocation, tagged with the volume handled
Tagged(cs, id) ==
    [i \in 1..Len(cs) |-> [cs[i] EXCEPT !.vol = id]]

\* faulty variant of the loop body: the exception of a handler is recorded
\* and the loop goes on with the next entry
Commit_goeson(r) ==
    /\ started' = Append(started, storage_config[idx].id)
    /\ cmds' = cmds \o Tagged(r.cmds, storage_config[idx].id)
    /\ kern' = r.kern
    /\ devs' = r.devs
    /\ ptab' = r.ptab
    /\ rules' = r.rules
    /\ geometry' = r.geom
    /\ md' = r.md
    /\ lvm' = r.lvm
    /\ files' = r.files
    /\ bc' = r.bc
    /\ polls' = r.polls
    /\ idx' = idx + 1
    /\ status' = IF idx = Len(storage_config) THEN "done" ELSE "running"
    /\ IF Failed(r)
       THEN /\ error' = [vol |-> storage_config[idx].id, kind |-> r.err,
                         arg |-> ""]
            /\ UNCHANGED returned
       ELSE /\ returned' = Append(returned, storage_config[idx].id)
            /\ UNCHANGED error
    /\ UNCHANGED <<storage_config, lbs, mdAfter, state, appear, bootpt, config, iscsi>>

\* the handler of storage_config[idx] has run with outcome r: on an
\* exception the error is logged and re-raised out of the loop, otherwise
\* the loop moves to the next entry (and meta_custom returns 0 after the last)
Commit(r) ==
    LET command == storage_config[idx]
    IN /\ started' = Append(started, command.id)
       /\ cmds' = cmds \o Tagged(r.cmds, command.id)
       /\ kern' = r.kern
       /\ devs' = r.devs
       /\ ptab' = r.ptab
       /\ rules' = r.rules
       /\ geometry' = r.geom
       /\ md' = r.md
       /\ lvm' = r.lvm
       /\ files' = r.files
       /\ bc' = r.bc
       /\ polls' = r.polls
       /\ IF Failed(r)
          THEN /\ status' = "failed"
               /\ error' = [vol |-> command.id, kind |-> r.err, arg |-> ""]
               /\ UNCHANGED <<idx, returned>>
          ELSE /\ returned' = Append(returned, command.id)
               /\ idx' = idx + 1
               /\ status' = IF idx = Len(storage_config) THEN "done"
                                                         ELSE "running"
               /\ UNCHANGED error
       /\ UNCHANGED <<storage_config, lbs, mdAfter, state, appear, bootpt, config, iscsi>>

AtType(t) ==
    /\ status = "running"
    /\ idx <= Len(storage_config)
    /\ storage_config[idx].type = t

FailsOf(tools) == {f \in Fails : f = NoFail \/ f.tool \in tools}

DiskStep ==
    /\ AtType("disk")
    /\ \E f \in FailsOf({"partprobe", "udevadm", "blkid", "mdadm",
                         "clear_holders", "wipe", "sgdisk", "parted"}) :
          Commit(disk_handler(R0(f), storage_config[idx], storage_config))

PartitionStep ==
    /\ AtType("partition")
    /\ \E f \in FailsOf({"partprobe", "udevadm", "blkid", "wipe",
                         "sgdisk", "parted"}) :
          Commit(partition_handler(R0(f), storage_config[idx], storage_config))

FormatStep ==
    /\ AtType("format")
    /\ \E f \in FailsOf({"partprobe", "udevadm", "mkfs"}) :
          Commit(format_handler(R0(f), storage_config[idx], storage_config))

MountStep ==
    /\ AtType("mount")
    /\ \E f \in FailsOf({"partprobe", "udevadm", "mount", "blkid"}) :
          Commit(mount_handler(R0(f), storage_config[idx], storage_config))

LvmVolgroupStep ==
    /\ AtType("lvm_volgroup")
    /\ \E f \in FailsOf({"partprobe", "udevadm", "vgchange", "pvdisplay",
                         "vgcreate"}) :
          Commit(lvm_volgroup_handler(R0(f), storage_config[idx],
                                      storage_config))

LvmPartitionStep ==
    /\ AtType("lvm_partition")
    /\ \E f \in FailsOf({"partprobe", "udevadm", "lvdisplay", "lvcreate"}) :
          Commit(lvm_partition_handler(R0(f), storage_config[idx],
                                       storage_config))

DmCryptStep ==
    /\ AtType("dm_crypt")
    /\ \E f \in FailsOf({"partprobe", "udevadm", "cryptsetup", "blkid"}) :
          Commit(dm_crypt_handler(R0(f), storage_config[idx], storage_config))

RaidStep ==
    /\ AtType("raid")
    /\ \E f \in FailsOf({"partprobe", "udevadm", "mdadm", "blkid", "sgdisk",
                         "parted"}) :
          Commit(raid_handler(R0(f), storage_config[idx], storage_config))

BcacheEnvs == [autoreg : BOOLEAN, ioerrs : 0..MaxIoErrs, regworks : BOOLEAN,
               holders : BOOLEAN]

BcacheStep ==
    /\ AtType("bcache")
    /\ \E f \in FailsOf({"partprobe", "udevadm", "modprobe", "make-bcache",
                         "bcache-super-show"}), e \in BcacheEnvs :
          /\ f = NoFail \/ e = NoEnv
          /\ Commit(bcache_handler([R0(f) EXCEPT !.env = e], storage_config[idx],
                                storage_config))

HandlerTypes == {"disk", "partition", "format", "mount", "lvm_volgroup",
                 "lvm_partition", "dm_crypt", "raid", "bcache"}

\* faulty variant: an entry of unknown type is skipped
UnknownTypeStep_skips ==
    /\ status = "running"
    /\ idx <= Len(storage_config)
    /\ storage_config[idx].type \notin HandlerTypes
    /\ idx' = idx + 1
    /\ status' = IF idx = Len(storage_config) THEN "done" ELSE "running"
    /\ UNCHANGED <<storage_config, error, started, returned, cmds, kern, devs,
                   lbs, ptab, rules, geometry, md, mdAfter, lvm, files, bc,
                   state, appear, polls, bootpt, config, iscsi>>

\* command_handlers.get(command['type']) is None: ValueError is raised before
\* the reporting scope and the handler call; its message carries the type
UnknownTypeStep ==
    /\ status = "running"
    /\ idx <= Len(storage_config)
    /\ storage_config[idx].type \notin HandlerTypes
    /\ status' = "failed"
    /\ error' = [vol |-> storage_config[idx].id, kind |-> "ValueError",
                 arg |-> storage_config[idx].type]
    /\ UNCHANGED <<storage_config, idx, started, returned, cmds, kern, devs,
                   lbs, ptab, rules, geometry, md, mdAfter, lvm, files, bc,
                   state, appear, polls, bootpt, config, iscsi>>

-----------------------------------------------------------------------------
(* block/iscsi.py: the registry of connected iSCSI disks                   *)

\* an RFC 4173 specification, as its fields: <<scheme, auth, host, proto,
\* port, lun, targetname>> stands for scheme:[auth@]host:proto:port:lun:name
Rfc(scheme, auth, host, port, lun, target) ==
    <<scheme, auth, host, "", port, lun, target>>

DefaultPort == 3260

\* int() of the decimal strings the specifications carry; 0 - 1 stands for
\* the ValueError of a string that is no number
IntOf(str) ==
    CASE str = "0" -> 0
      [] str = "1" -> 1
      [] str = "3260" -> 3260
      [] str = "3261" -> 3261
      [] OTHER -> 0 - 1

\* IscsiDisk.__init__: the object of a specification, or the ValueError
IscsiDisk(rfc4173) ==
    IF rfc4173[1] # "iscsi" THEN [exc |-> "ValueError"]
    ELSE IF rfc4173[3] = "" \/ rfc4173[7] = "" THEN [exc |-> "ValueError"]
    ELSE IF rfc4173[5] # "" /\ IntOf(rfc4173[5]) < 0
    THEN [exc |-> "ValueError"]
    ELSE [exc |-> "",
          user |-> rfc4173[2],
          host |-> rfc4173[3],
          proto |-> "6",
          lun |-> IF rfc4173[6] # "" THEN IntOf(rfc4173[6]) ELSE 0,
          target |-> rfc4173[7],
          port |-> IF rfc4173[5] # "" THEN IntOf(rfc4173[5])
                   ELSE DefaultPort]

\* the directory of IscsiDisk.etciscsi_nodefile
etciscsi_nodedir(disk) == <<disk.target, disk.host, disk.port, disk.lun>>

\* no call yet
NoCall ==
    [spec |-> <<>>, write_config |-> FALSE, fail |-> "", exc |-> "",
     connect |-> "", ops |-> <<>>, ret |-> 0]

\* registry: _ISCSI_DISKS, specification -> IscsiDisk object (objects are
\* told apart by the number of the call that constructed them);
\* sessions: the targets iscsiadm shows a session of;
\* nodes: the node directories below the directory of the fstab;
\* n: the calls of ensure_disk_connected so far; last: the last of them
NoIscsi ==
    [registry |-> <<>>, sessions |-> {}, nodes |-> {}, n |-> 0,
     last |-> NoCall]

IscsiOp(s, op) == [s EXCEPT !.last.ops = Append(@, op)]

IscsiRaise(s, exc) == [s EXCEPT !.last.exc = exc]

\* the function returns the object obj
IscsiReturn(s, obj) == [s EXCEPT !.last.ret = obj]

\* a subprocess of connect exits non-zero
ConnectFailed(s) ==
    [IscsiRaise(s, "ProcessExecutionError") EXCEPT !.last.connect = "failed"]

connect_set_automatic(s, disk) ==
    IF s.last.fail = "set_automatic"
    THEN ConnectFailed(IscsiOp(s, "set_automatic"))
    ELSE [IscsiOp(s, "set_automatic") EXCEPT !.last.connect = "ok"]

connect_login(s, disk) ==
    IF s.last.fail = "login" THEN ConnectFailed(IscsiOp(s, "login"))
    ELSE connect_set_automatic(
             IscsiOp([IscsiOp(s, "login")
                        EXCEPT !.sessions = @ \cup {disk.target}],
                     "settle"),
             disk)

\* iscsiadm_authenticate runs iscsiadm when a user and password are given
connect_authenticate(s, disk) ==
    IF disk.user = "" THEN connect_login(s, disk)
    ELSE IF s.last.fail = "authenticate"
    THEN ConnectFailed(IscsiOp(s, "authenticate"))
    ELSE connect_login(IscsiOp(s, "authenticate"), disk)

connect_discovery(s, disk) ==
    IF s.last.fail = "discovery" THEN ConnectFailed(IscsiOp(s, "discovery"))
    ELSE connect_authenticate(IscsiOp(s, "discovery"), disk)

\* IscsiDisk.connect: nothing to do when the target has a session
connect(s, disk) ==
    IF s.last.fail = "sessions" THEN ConnectFailed(IscsiOp(s, "sessions"))
    ELSE IF disk.target \in s.sessions
    THEN [IscsiOp(s, "sessions") EXCEPT !.last.connect = "ok"]
    ELSE connect_discovery(IscsiOp(s, "sessions"), disk)

\* save_iscsi_config: os.makedirs of the node directory, which must not
\* exist, then shutil.copy of the node file; nothing without an fstab
save_iscsi_config(s, disk, fstab) ==
    IF ~fstab THEN s
    ELSE IF etciscsi_nodedir(disk) \in s.nodes
    THEN IscsiRaise(s, "FileExistsError")
    ELSE IF s.last.fail = "copy"
    THEN IscsiRaise([s EXCEPT !.nodes = @ \cup {etciscsi_nodedir(disk)}],
                    "IOError")
    ELSE [s EXCEPT !.nodes = @ \cup {etciscsi_nodedir(disk)}]

\* _ISCSI_DISKS.update({rfc4173: iscsi_disk})
RegistryUpdate(registry, rfc4173, obj) ==
    IF \E i \in 1..Len(registry) : registry[i].spec = rfc4173
    THEN [i \in 1..Len(registry) |->
            IF registry[i].spec = rfc4173
            THEN [spec |-> rfc4173, obj |-> obj] ELSE registry[i]]
    ELSE Append(registry, [spec |-> rfc4173, obj |-> obj])

\* _ISCSI_DISKS.get(rfc4173), 0 for None
RegistryGet(registry, rfc4173) ==
    IF \E i \in 1..Len(registry) : registry[i].spec = rfc4173
    THEN registry[CHOOSE i \in 1..Len(registry) :
                     registry[i].spec = rfc4173].obj
    ELSE 0

ensure_disk_connected_saved(s, rfc4173) ==
    IF s.last.exc # "" THEN s
    ELSE IscsiReturn(
             [s EXCEPT !.registry = RegistryUpdate(@, rfc4173, s.n)], s.n)

ensure_disk_connected_connected(s, rfc4173, disk, fstab) ==
    IF s.last.exc # "" THEN s
    ELSE ensure_disk_connected_saved(
             IF s.last.write_config THEN save_iscsi_config(s, disk, fstab)
             ELSE s,
             rfc4173)

ensure_disk_connected_new(s, rfc4173, disk, fstab) ==
    IF disk.exc # "" THEN IscsiRaise(s, disk.exc)
    ELSE ensure_disk_connected_connected(connect(s, disk), rfc4173, disk,
                                         fstab)

\* ensure_disk_connected(rfc4173, write_config), as call number s.n
ensure_disk_connected(s, rfc4173, fstab) ==
    IF RegistryGet(s.registry, rfc4173) # 0
    THEN IscsiReturn(s, RegistryGet(s.registry, rfc4173))
    ELSE ensure_disk_connected_new(s, rfc4173, IscsiDisk(rfc4173), fstab)

-----------------------------------------------------------------------------
(* get_bootpt_cfg                                                          *)

\* dict.update: the keys of d2 are set in d1 (a dict is a function of its keys)
update(d1, d2) ==
    [k \in DOMAIN d1 \cup DOMAIN d2 |-> IF k \in DOMAIN d2 THEN d2[k] ELSE d1[k]]

\* the fstype block, ret being the dict after the enabled block; None is ""
get_bootpt_cfg_fstype(ret, fstype, root_fstype) ==
    IF ret["enabled"] /\ ret["fstype"] = ""
    THEN [ret EXCEPT !["fstype"] = IF fstype # "" THEN fstype
                                   ELSE IF root_fstype # "" THEN root_fstype
                                   ELSE @]
    ELSE ret

\* the enabled block, ret being the defaults updated with cfg
get_bootpt_cfg_enabled(ret, enabled) ==
    IF enabled THEN [ret EXCEPT !["enabled"] = TRUE] ELSE ret

\* def_boot: the machine is aarch64 and not UEFI bootable
get_bootpt_cfg(cfg, enabled, fstype, root_fstype, def_boot) ==
    get_bootpt_cfg_fstype(
        get_bootpt_cfg_enabled(
            update([enabled |-> def_boot, fstype |-> "", label |-> "boot"], cfg),
            enabled),
        fstype, root_fstype)

NoBootpt ==
    [cfg |-> <<>>, enabled |-> FALSE, fstype |-> "", root_fstype |-> "",
     def_boot |-> FALSE, called |-> FALSE,
     ret |-> [enabled |-> FALSE, fstype |-> "", label |-> "boot"]]

-----------------------------------------------------------------------------
(* Partition layouts: one disk and its partitions                          *)

Flags == {"", "primary", "extended", "logical"}

SmallKiB == 3 * 1024            \* 3M
LargeKiB == 2 * 1024 * 1024     \* 2GB
PreSize == 8 * 512     \* size (512-byte units) of a partition found on a preserved disk

SizeProfiles == {"small", "mixed"}

SizeAt(prof, i) ==
    IF prof = "small" THEN SmallKiB
    ELSE IF i % 2 = 1 THEN LargeKiB ELSE SmallKiB

Sda == <<"sd", "a">>

Sdb == <<"sd", "b">>

PartId(i) == "p" \o ToString(i)

DiskDecl(id, kname, pt, dp) ==
    [NoVol EXCEPT !.id = id, !.type = "disk", !.path = DevPath(kname),
                  !.ptable = pt, !.preserve = dp]

PartDecl(id, device, flag, size, pres, num) ==
    [NoVol EXCEPT !.id = id, !.type = "partition", !.device = device,
                  !.flag = flag, !.size = size, !.preserve = pres,
                  !.number = num]

\* the partitions are all preserved or all created; the last one may carry
\* an explicit number; an interleaved layout declares a second disk, and a
\* partition of it between the first and the second partition of the disk
PartLayout(pt, dp, n, fl, prof, pp, en, il) ==
    <<DiskDecl("d1", Sda, pt, dp)>> \o
    (IF il THEN <<DiskDecl("d2", Sdb, pt, FALSE)>> ELSE <<>>) \o
    <<PartDecl("p1", "d1", fl[1], SizeAt(prof, 1), pp,
               IF n = 1 THEN en ELSE 0)>> \o
    (IF il THEN <<PartDecl("q1", "d2", "", SmallKiB, FALSE, 0)>> ELSE <<>>) \o
    [j \in 1..(n - 1) |-> PartDecl(PartId(j + 1), "d1", fl[j + 1],
                                   SizeAt(prof, j + 1), pp,
                                   IF j + 1 = n THEN en ELSE 0)]

\* what the kernel shows of the partitions that already exist
PreExisting(cfg, np) ==
    {LET num == determine_partition_number(PartId(i), cfg)
     IN [part |-> determine_partition_kname(Sda, num),
         start |-> 2048 + (num - 1) * PreSize,
         size |-> PreSize] : i \in 1..np}

InitCommon ==
    /\ idx = 1
    /\ iscsi = NoIscsi
    /\ config = <<>>
    /\ bootpt = NoBootpt
    /\ status = "running"
    /\ error = NoError
    /\ started = <<>>
    /\ returned = <<>>
    /\ cmds = <<>>
    /\ rules = {}
    /\ geometry = <<>>
    /\ files = NoFiles
    /\ polls = 0

\* the layouts vary one thing at a time: sizes, an explicit number, what is
\* preserved, an interleaved second disk
Variants == {"plain", "mixed", "numbered", "interleaved", "preserved",
             "disk-preserved", "parts-preserved"}

\* a gpt label is tried with the plain and the mixed layouts, an unreadable
\* sector size (0) with the plain ones
Shapes ==
    {sh \in [pt : {"msdos", "gpt"}, v : Variants, s : {0, 512, 4096}] :
        /\ sh.pt = "gpt" => sh.v \in {"plain", "mixed"}
        /\ sh.s = 0 => sh.v = "plain"}

InitPart ==
    /\ InitCommon
    /\ \E sh \in Shapes, n \in 1..MaxParts :
         \E fl \in [1..n -> Flags] :
            LET dp == sh.v \in {"preserved", "disk-preserved"}
                pp == sh.v \in {"preserved", "parts-preserved"}
            IN /\ storage_config =
                    PartLayout(sh.pt, dp, n, fl,
                               IF sh.v = "mixed" THEN "mixed" ELSE "small", pp,
                               IF sh.v = "numbered" THEN 2 ELSE 0,
                               sh.v = "interleaved")
               /\ kern = PreExisting(storage_config, IF pp THEN n ELSE 0)
               /\ devs = {DevPath(Sda)} \cup {DevPath(e.part) : e \in kern}
                         \cup (IF sh.v = "interleaved" THEN {DevPath(Sdb)}
                                                       ELSE {})
               /\ ptab = [d \in {Sda} |->
                            IF pp \/ dp
                            THEN (IF sh.pt = "msdos" THEN "dos" ELSE "gpt")
                            ELSE ""]
               /\ lbs = [d \in {Sda} |-> sh.s]
    /\ md = NoMd
    /\ mdAfter = NoMd
    /\ lvm = NoLvm
    /\ bc = NoBc
    /\ state = [fstab |-> TRUE]
    /\ appear = 0

NextPart == DiskStep \/ PartitionStep

SpecPart == InitPart /\ [][NextPart]_vars

-----------------------------------------------------------------------------
(* Storage configurations of the dispatcher: one chain per volume kind     *)

Decl(id, type) == [NoVol EXCEPT !.id = id, !.type = type]

D1 == [DiskDecl("d1", Sda, "gpt", FALSE) EXCEPT !.name = "main"]
D2 == DiskDecl("d2", Sdb, "", FALSE)
P1 == [Decl("p1", "partition") EXCEPT !.device = "d1", !.size = SmallKiB,
                                      !.wipe = "superblock"]
F(vol) == [Decl("f1", "format") EXCEPT !.volume = vol, !.fstype = "ext4"]
M1 == [Decl("m1", "mount") EXCEPT !.device = "f1",
                                  !.path = [dir |-> "/", kname |-> <<"boot">>]]

ChainMount == <<D1, P1, F("p1"), M1>>

ChainCrypt ==
    <<D1, P1, [Decl("c1", "dm_crypt") EXCEPT !.volume = "p1", !.key = "secret"],
      F("c1"), M1>>

ChainLvm ==
    <<D1, P1,
      [Decl("vg", "lvm_volgroup") EXCEPT !.name = "vg1", !.devices = <<"p1">>],
      [Decl("lv", "lvm_partition") EXCEPT !.name = "lv1", !.volgroup = "vg"],
      F("lv"), M1>>

RaidDecl(devices) ==
    [Decl("r1", "raid") EXCEPT !.name = "md0", !.raidlevel = "raid1",
                               !.devices = devices]

ChainRaid == <<D1, D2, RaidDecl(<<"d1", "d2">>), F("r1"), M1>>

\* a disk whose id reads like the path of another disk
ChainRaidIds ==
    <<DiskDecl("/dev/sdb", Sda, "", FALSE), D2, RaidDecl(<<"/dev/sdb">>),
      F("r1")>>

ChainBcache ==
    <<D1, D2,
      [Decl("b1", "bcache") EXCEPT !.backing_device = "d1",
                                   !.cache_device = "d2",
                                   !.cache_mode = "writeback"],
      F("b1"), M1>>

\* a bcache with a backing device only
ChainBacking ==
    <<D1, [Decl("b1", "bcache") EXCEPT !.backing_device = "d1",
                                       !.cache_mode = "writeback"],
      F("b1")>>

ChainUnknown == <<D1, Decl("z1", "zfs"), P1>>

Chains == {ChainMount, ChainCrypt, ChainLvm, ChainRaid, ChainRaidIds,
           ChainBcache, ChainBacking, ChainUnknown}

HasType(cfg, t) == \E i \in 1..Len(cfg) : cfg[i].type = t

\* the arrays the kernel may have running, or bring up on --assemble
MdStates ==
    {NoMd} \cup {[up |-> TRUE, members |-> m, spares |-> {}] :
                    m \in {{DevPath(Sda), DevPath(Sdb)}, {DevPath(Sdb)}}}

\* the machine before the run: "blank" has the two disks and nothing on
\* them, "built" has everything the chains declare, "nodisk" has no disk
Machines == {"blank", "built", "nodisk"}

Sda1 == <<"sd", "a", "1">>

InitMachine(m) ==
    /\ kern = IF m = "built"
              THEN {[part |-> Sda1, start |-> 2048, size |-> PreSize]} ELSE {}
    /\ devs = IF m = "nodisk" THEN {}
              ELSE IF m = "blank" THEN {DevPath(Sda), DevPath(Sdb)}
              ELSE {DevPath(Sda), DevPath(Sdb), DevPath(Sda1),
                    DevPath(<<"md0">>), DevPath(<<"bcache0">>),
                    [dir |-> "/dev/mapper", kname |-> <<"c1">>],
                    [dir |-> "/dev/vg1", kname |-> <<"lv1">>]}
    /\ ptab = [d \in {Sda, Sdb} |-> IF m = "built" THEN "gpt" ELSE ""]
    /\ lvm = IF m = "built"
             THEN [pvs |-> {[vg |-> "vg1", pv |-> DevPath(Sda1)]},
                   lvs |-> {[lv |-> "lv1", vg |-> "vg1"]}]
             ELSE NoLvm
    /\ bc = IF m = "built"
            THEN [csets |-> {DevPath(Sdb)}, backing |-> {DevPath(Sda)},
                  holders |-> {[backing |-> DevPath(Sda), dev |-> "bcache0"]}]
            ELSE NoBc

Init ==
    /\ InitCommon
    /\ \E ch \in Chains, n \in 1..MaxVols :
          /\ n <= Len(ch)
          /\ \E pres \in [1..n -> BOOLEAN] :
                storage_config = [i \in 1..n |-> [ch[i] EXCEPT !.preserve = pres[i]]]
    /\ \E m \in Machines : InitMachine(m)
    /\ lbs = [d \in {Sda, Sdb} |-> 512]
    /\ md \in (IF HasType(storage_config, "raid") THEN MdStates ELSE {NoMd})
    /\ mdAfter \in (IF HasType(storage_config, "raid") THEN MdStates
                                                       ELSE {NoMd})
    /\ state \in [fstab : BOOLEAN]
    /\ appear = 0

Next ==
    \/ DiskStep
    \/ PartitionStep
    \/ FormatStep
    \/ MountStep
    \/ LvmVolgroupStep
    \/ LvmPartitionStep
    \/ DmCryptStep
    \/ RaidStep
    \/ BcacheStep
    \/ UnknownTypeStep

Spec == Init /\ [][Next]_vars

-----------------------------------------------------------------------------
(* Complete storage configurations, run from the first declaration to the  *)
(* last (SpecChain)                                                        *)

\* a disk that is wiped before it is labelled
D1w == [D1 EXCEPT !.wipe = "superblock"]

\* a filesystem on the whole disk
ChainDisk == <<D1w, F("d1"), M1>>

\* a dm_crypt volume with a mapping name of its own
ChainCryptNamed ==
    <<D1, P1, [Decl("c1", "dm_crypt") EXCEPT !.volume = "p1", !.key = "secret",
                                             !.dm_name = "secure"],
      F("c1"), M1>>

\* a mount of a filesystem on a volume group, declared before its format
ChainMountVg ==
    <<D1, P1,
      [Decl("vg", "lvm_volgroup") EXCEPT !.name = "vg1", !.devices = <<"p1">>],
      M1, F("vg")>>

FullChains == {ChainMount, ChainDisk, ChainCrypt, ChainCryptNamed, ChainLvm,
               ChainRaid, ChainBcache, ChainMountVg, ChainUnknown}

InitChain ==
    /\ InitCommon
    /\ storage_config \in FullChains
    /\ \E m \in {"blank", "built"} : InitMachine(m)
    /\ lbs = [d \in {Sda, Sdb} |-> 512]
    /\ md = NoMd
    /\ mdAfter = NoMd
    /\ state \in [fstab : BOOLEAN]
    /\ appear = 0

SpecChain == InitChain /\ [][Next]_vars

-----------------------------------------------------------------------------
(* Device synchronisation: disks that are resolved and nothing else, on a  *)
(* machine where a node may show up while it is waited for (SpecSync)      *)

\* preserved and without a partition table: disk_handler returns right
\* after get_path_to_storage_volume, which is one devsync of the disk's path
SyncDisk(i) ==
    DiskDecl("d" \o ToString(i), IF i % 2 = 1 THEN Sda ELSE Sdb, "", TRUE)

InitSync ==
    /\ InitCommon
    /\ \E n \in 1..MaxDisks : storage_config = [i \in 1..n |-> SyncDisk(i)]
    /\ devs \in SUBSET {DevPath(Sda), DevPath(Sdb)}
    /\ appear \in 0..MaxAppear
    /\ kern = {}
    /\ ptab = [d \in {Sda, Sdb} |-> ""]
    /\ lbs = [d \in {Sda, Sdb} |-> 512]
    /\ md = NoMd
    /\ mdAfter = NoMd
    /\ lvm = NoLvm
    /\ bc = NoBc
    /\ state = [fstab |-> TRUE]

NextSync == DiskStep

SpecSync == InitSync /\ [][NextSync]_vars

-----------------------------------------------------------------------------
(* Single handlers on the declarations and machines that tell their        *)
(* branches apart (SpecCases)                                              *)

\* a lone disk: its label, whether it is preserved, whether it is named
DiskCase(pt, pres, name) ==
    [DiskDecl("d1", Sda, pt, pres) EXCEPT !.name = name]

\* the partition-table types blkid may report for the disk ("": none)
CurrentPtables == {"", "dos", "gpt", "mac"}

InitDiskCase ==
    /\ \E pt \in {"", "gpt", "msdos"}, pres \in BOOLEAN, name \in {"", "main"} :
          storage_config = <<DiskCase(pt, pres, name)>>
    /\ \E cur \in CurrentPtables : ptab = [d \in {Sda, Sdb} |->
                                              IF d = Sda THEN cur ELSE ""]
    /\ devs = {DevPath(Sda), DevPath(Sdb)}
    /\ kern = {}
    /\ lvm = NoLvm
    /\ bc = NoBc

\* declarations with one reference to an id that is not in the graph
DanglingDecls ==
    {[Decl("x1", "partition") EXCEPT !.device = "zz", !.size = SmallKiB],
     [Decl("x1", "format") EXCEPT !.volume = "zz", !.fstype = "ext4"],
     [Decl("x1", "mount") EXCEPT !.device = "zz",
                                 !.path = [dir |-> "/", kname |-> <<"boot">>]],
     [Decl("x1", "lvm_volgroup") EXCEPT !.name = "vg1", !.devices = <<"zz">>],
     [Decl("x1", "lvm_partition") EXCEPT !.name = "lv1", !.volgroup = "zz"],
     [Decl("x1", "dm_crypt") EXCEPT !.volume = "zz", !.key = "secret"],
     [Decl("x1", "raid") EXCEPT !.name = "md0", !.raidlevel = "raid1",
                                !.devices = <<"zz">>],
     [Decl("x1", "raid") EXCEPT !.name = "md0", !.raidlevel = "raid1",
                                !.devices = <<"d1">>,
                                !.spare_devices = <<"zz">>],
     [Decl("x1", "bcache") EXCEPT !.backing_device = "zz",
                                  !.cache_device = "d1"],
     [Decl("x1", "bcache") EXCEPT !.backing_device = "d1",
                                  !.cache_device = "zz"]}

InitDangling ==
    /\ \E x \in DanglingDecls : storage_config = <<D1, x>>
    /\ InitMachine("blank")

\* raid declarations: levels inside and outside the allow-list, with and
\* without a spare, with and without members
RaidCases ==
    {[RaidDecl(dv) EXCEPT !.raidlevel = lv, !.spare_devices = sp] :
        dv \in {<<>>, <<"d1">>}, lv \in {"raid1", "raid0", "raid7", ""},
        sp \in {<<>>, <<"d2">>}}

InitRaidCase ==
    /\ \E x \in RaidCases : storage_config = <<D1, D2, x>>
    /\ InitMachine("blank")

\* what lvdisplay may list
LvStates ==
    {{}, {[lv |-> "lv1", vg |-> "vg1"]}, {[lv |-> "lv10", vg |-> "vg1"]},
     {[lv |-> "lv1", vg |-> "vg10"]},
     {[lv |-> "lv1", vg |-> "vg1"], [lv |-> "lv10", vg |-> "vg1"]}}

\* a preserved stack up to a preserved logical volume
ChainLvmPreserved ==
    <<DiskDecl("d1", Sda, "", TRUE),
      [P1 EXCEPT !.preserve = TRUE],
      [Decl("vg", "lvm_volgroup") EXCEPT !.name = "vg1", !.devices = <<"p1">>,
                                         !.preserve = TRUE],
      [Decl("lv", "lvm_partition") EXCEPT !.name = "lv1", !.volgroup = "vg",
                                          !.preserve = TRUE]>>

InitLvmCase ==
    /\ storage_config = ChainLvmPreserved
    /\ \E ls \in LvStates :
          /\ lvm = [pvs |-> {[vg |-> "vg1", pv |-> DevPath(Sda1)]}, lvs |-> ls]
          /\ devs = {DevPath(Sda), DevPath(Sdb), DevPath(Sda1)}
                    \cup {[dir |-> "/dev/" \o l.vg, kname |-> <<l.lv>>] :
                             l \in ls}
    /\ kern = {[part |-> Sda1, start |-> 2048, size |-> PreSize]}
    /\ ptab = [d \in {Sda, Sdb} |-> IF d = Sda THEN "gpt" ELSE ""]
    /\ bc = NoBc

\* a filesystem that is mounted and a swap space, each with its mount
ChainTwoMounts ==
    <<D1, P1, F("p1"), M1, D2,
      [Decl("f2", "format") EXCEPT !.volume = "d2", !.fstype = "swap"],
      [Decl("m2", "mount") EXCEPT !.device = "f2"]>>

InitMounts ==
    /\ storage_config = ChainTwoMounts
    /\ \E m \in {"blank", "built"} : InitMachine(m)

\* an msdos disk whose extended partition is declared first, followed by
\* primary and logical partitions in every order; the extended partition is
\* large, or has just the size of two of the partitions
NestedLayout(n, fl, esize) ==
    <<DiskDecl("d1", Sda, "msdos", FALSE),
      PartDecl("e1", "d1", "extended", esize, FALSE, 0)>> \o
    [j \in 1..n |-> PartDecl(PartId(j), "d1", fl[j], SmallKiB, FALSE, 0)]

InitNested ==
    /\ \E n \in 1..(MaxParts + 1) :
          \E fl \in [1..n -> {"", "logical"}],
             esize \in {LargeKiB, 2 * SmallKiB} :
             storage_config = NestedLayout(n, fl, esize)
    /\ devs = {DevPath(Sda), DevPath(Sdb)}
    /\ kern = {}
    /\ ptab = [d \in {Sda, Sdb} |-> ""]
    /\ lvm = NoLvm
    /\ bc = NoBc

\* one or two partitions with explicit numbers, on a disk without an
\* extended partition
NumberedLayout(pt, nums, fl) ==
    <<DiskDecl("d1", Sda, pt, FALSE)>> \o
    [j \in 1..Len(nums) |-> PartDecl(PartId(j), "d1", fl, SmallKiB, FALSE,
                                      nums[j])]

InitNumbered ==
    /\ \E pt \in {"msdos", "gpt"}, fl \in {"", "logical"},
          nums \in {<<2>>, <<5>>, <<0, 5>>, <<0, 3>>} :
          storage_config = NumberedLayout(pt, nums, fl)
    /\ devs = {DevPath(Sda), DevPath(Sdb)}
    /\ kern = {}
    /\ ptab = [d \in {Sda, Sdb} |-> ""]
    /\ lvm = NoLvm
    /\ bc = NoBc

\* declarations that can be seen to be wrong without looking at the
\* machine: a partition table on a logical volume or on a bcache, a
\* partition on a disk that gets no partition table
StaticCases ==
    {<<D1, P1,
       [Decl("vg", "lvm_volgroup") EXCEPT !.name = "vg1", !.devices = <<"p1">>],
       [Decl("lv", "lvm_partition") EXCEPT !.name = "lv1", !.volgroup = "vg",
                                           !.ptable = "gpt"]>>,
     <<D1, D2,
       [Decl("b1", "bcache") EXCEPT !.backing_device = "d1",
                                    !.cache_device = "d2",
                                    !.ptable = "gpt"]>>,
     <<DiskDecl("d1", Sda, "", FALSE), P1>>}

InitStatic ==
    /\ storage_config \in StaticCases
    /\ InitMachine("blank")

InitCases ==
    /\ InitCommon
    /\ \/ InitDiskCase
       \/ InitNested
       \/ InitNumbered
       \/ InitStatic
       \/ InitDangling
       \/ InitRaidCase
       \/ InitLvmCase
       \/ InitMounts
    /\ lbs = [d \in {Sda, Sdb} |-> 512]
    /\ md = NoMd
    /\ mdAfter = NoMd
    /\ state \in [fstab : BOOLEAN]
    /\ appear = 0

NextCases ==
    \/ DiskStep
    \/ PartitionStep
    \/ FormatStep
    \/ MountStep
    \/ LvmVolgroupStep
    \/ LvmPartitionStep
    \/ DmCryptStep
    \/ RaidStep
    \/ BcacheStep

SpecCases == InitCases /\ [][NextCases]_vars

-----------------------------------------------------------------------------
(* Functions called outside a run of the dispatcher                        *)

\* no storage configuration is being processed
InitBlank ==
    /\ storage_config = <<>>
    /\ idx = 1
    /\ error = NoError
    /\ started = <<>>
    /\ returned = <<>>
    /\ cmds = <<>>
    /\ kern = {}
    /\ devs = {DevPath(Sda), DevPath(Sdb)}
    /\ lbs = [d \in {Sda, Sdb} |-> 512]
    /\ ptab = [d \in {Sda, Sdb} |-> ""]
    /\ rules = {}
    /\ geometry = <<>>
    /\ md = NoMd
    /\ mdAfter = NoMd
    /\ lvm = NoLvm
    /\ files = NoFiles
    /\ bc = NoBc
    /\ appear = 0
    /\ polls = 0

InitIdle ==
    /\ InitBlank
    /\ status = "done"
    /\ config = <<>>
    /\ state = [fstab |-> TRUE]
    /\ iscsi = NoIscsi

\* the boot partition sections a configuration may carry: any subset of the
\* keys, fstype possibly empty
BootptCfgs ==
    {[k \in K |-> full[k]] :
        K \in SUBSET {"enabled", "fstype", "label"},
        full \in [enabled : BOOLEAN, fstype : {"", "ext3"},
                  label : {"boot", "efi"}]}

InitBoot ==
    /\ InitIdle
    /\ \E c \in BootptCfgs, e \in BOOLEAN, f \in {"", "ext4"},
          rf \in {"", "btrfs"}, db \in BOOLEAN :
          bootpt = [NoBootpt EXCEPT !.cfg = c, !.enabled = e, !.fstype = f,
                                    !.root_fstype = rf, !.def_boot = db]

\* the call get_bootpt_cfg(cfg, enabled, fstype, root_fstype)
BootptStep ==
    /\ ~bootpt.called
    /\ bootpt' = [bootpt EXCEPT
                    !.called = TRUE,
                    !.ret = get_bootpt_cfg(bootpt.cfg, bootpt.enabled,
                                           bootpt.fstype, bootpt.root_fstype,
                                           bootpt.def_boot)]
    /\ UNCHANGED <<storage_config, idx, status, error, started, returned,
                   cmds, kern, devs, lbs, ptab, rules, geometry, md, mdAfter,
                   lvm, files, bc, state, appear, polls, config, iscsi>>

SpecBoot == InitBoot /\ [][BootptStep]_vars

-----------------------------------------------------------------------------
(***************************************************************************)
(* meta_custom from the configuration file: the declaration list is turned *)
(* into the ordered dict the dispatcher walks                              *)
(***************************************************************************)

\* a second declaration of the partition: another size, nothing to wipe
P1again == [P1 EXCEPT !.size = LargeKiB, !.wipe = ""]

\* a second declaration of the disk: the other device, another label
D1again == DiskDecl("d1", Sdb, "msdos", FALSE)

\* declaration lists: without a repeated id, with an id declared twice in a
\* row, twice with another declaration in between, three times, and none
RawConfigs ==
    {<<>>,
     <<D1, P1, F("p1")>>,
     <<D1, P1, P1again>>,
     <<D1, P1again, P1>>,
     <<D1, D1again, P1>>,
     <<D1, P1, D1again>>,
     <<D1, P1, D1again, P1again>>,
     <<D1, P1, F("p1"), [F("p1") EXCEPT !.fstype = "xfs"]>>,
     <<D1, P1, P1again, P1>>}

InitLoad ==
    /\ InitBlank
    /\ config \in RawConfigs
    /\ status = "loading"
    /\ state = [fstab |-> TRUE]
    /\ bootpt = NoBootpt
    /\ iscsi = NoIscsi

\* storage_config_dict = extract_storage_ordered_dict(config): ValueError
\* when there is nothing declared
LoadStep ==
    /\ status = "loading"
    /\ IF config = <<>>
       THEN /\ status' = "failed"
            /\ error' = [vol |-> "", kind |-> "ValueError", arg |-> ""]
            /\ UNCHANGED storage_config
       ELSE /\ storage_config' = extract_storage_ordered_dict(config)
            /\ status' = "running"
            /\ UNCHANGED error
    /\ UNCHANGED <<idx, started, returned, cmds, kern, devs, lbs, ptab, rules,
                   geometry, md, mdAfter, lvm, files, bc, state, appear,
                   polls, bootpt, config, iscsi>>

NextLoad ==
    \/ LoadStep
    \/ DiskStep
    \/ PartitionStep
    \/ FormatStep

SpecLoad == InitLoad /\ [][NextLoad]_vars

-----------------------------------------------------------------------------
(***************************************************************************)
(* Calls of ensure_disk_connected                                          *)
(***************************************************************************)

\* one target with the port given and left out, with credentials, a second
\* target, and specifications the constructor refuses
IscsiSpecs ==
    {Rfc("iscsi", "", "h", "3260", "1", "t1"),
     Rfc("iscsi", "", "h", "", "1", "t1"),
     Rfc("iscsi", "u:p", "h", "", "1", "t1"),
     Rfc("iscsi", "", "h", "", "", "t2"),
     Rfc("http", "", "h", "", "", "t1"),
     Rfc("iscsi", "", "h", "x", "", "t1")}

\* the step of a call that fails, if any
IscsiFails ==
    {"", "sessions", "discovery", "authenticate", "login", "set_automatic",
     "copy"}

MaxCalls == 3

InitIscsi ==
    /\ InitBlank
    /\ status = "done"
    /\ config = <<>>
    /\ bootpt = NoBootpt
    /\ state \in [fstab : BOOLEAN]
    /\ iscsi = NoIscsi

IscsiStep ==
    /\ iscsi.n < MaxCalls
    /\ \E rfc4173 \in IscsiSpecs, write_config \in BOOLEAN,
          fail \in IscsiFails :
          iscsi' = ensure_disk_connected(
                       [iscsi EXCEPT
                          !.n = @ + 1,
                          !.last = [NoCall EXCEPT
                                      !.spec = rfc4173,
                                      !.write_config = write_config,
                                      !.fail = fail]],
                       rfc4173, state.fstab)
    /\ UNCHANGED <<storage_config, idx, status, error, started, returned,
                   cmds, kern, devs, lbs, ptab, rules, geometry, md, mdAfter,
                   lvm, files, bc, state, appear, polls, bootpt, config>>

SpecIscsi == InitIscsi /\ [][IscsiStep]_vars

-----------------------------------------------------------------------------
(* Properties of the partition layouts (SpecPart)                          *)

\* positions of the partitions declared on a device
PartsOn(cfg, device) ==
    {i \in 1..Len(cfg) : cfg[i].type = "partition" /\ cfg[i].device = device}

\* the sector size partition_handler works with for a partition's disk
SectorSize(cfg, vol) == LbsOf(GetVol(cfg, vol.device).path.kname)

\* the disk is msdos and none of its partitions has a number or is logical
PlainMsdos(cfg, d) ==
    /\ cfg[d].type = "disk"
    /\ cfg[d].ptable = "msdos"
    /\ \A i \in PartsOn(cfg, cfg[d].id) :
          cfg[i].number = 0 /\ cfg[i].flag # "logical"

\* C3 as stated: a partition declared preserve=true on a disk that is not
\* preserve never has its handler return successfully
C3_PreservedOnUnpreserved ==
    \A i \in 1..Len(storage_config) :
        ( /\ storage_config[i].type = "partition"
          /\ storage_config[i].preserve
          /\ ~GetVol(storage_config, storage_config[i].device).preserve )
        => \A k \in 1..Len(returned) : returned[k] # storage_config[i].id

\* C3, amended: a partition that is not preserve on a disk that is preserve
\* never has its handler return successfully and is never created, while the
\* handler of a partition declared preserve=true never creates or wipes it
C3_UnpreservedOnPreserved ==
    \A i \in 1..Len(storage_config) :
        /\ ( /\ storage_config[i].type = "partition"
             /\ ~storage_config[i].preserve
             /\ GetVol(storage_config, storage_config[i].device).preserve )
           => /\ \A k \in 1..Len(returned) : returned[k] # storage_config[i].id
              /\ \A k \in 1..Len(cmds) :
                    cmds[k].vol = storage_config[i].id
                    => cmds[k].tool \notin {"parted", "sgdisk", "wipe"}
        /\ ( /\ storage_config[i].type = "partition"
             /\ storage_config[i].preserve )
           => \A k \in 1..Len(cmds) :
                 cmds[k].vol = storage_config[i].id
                 => cmds[k].tool \notin {"parted", "sgdisk", "wipe"}

\* the handler of a partition that is not preserve, on a preserved disk, has
\* raised NotImplementedError
C3_Witness ==
    /\ status = "failed"
    /\ error.kind = "NotImplementedError"
    /\ GetVol(storage_config, error.vol).type = "partition"
    /\ ~GetVol(storage_config, error.vol).preserve
    /\ GetVol(storage_config, GetVol(storage_config, error.vol).device).preserve

\* C5: the start computed for a non-logical partition B is not below the end
\* (kernel-reported start + size) of any non-logical partition A of the same
\* disk declared before it
C5_NoOverlap ==
    \A g \in 1..Len(geometry) :
        LET B == GetVol(storage_config, geometry[g].vol)
            S == SectorSize(storage_config, B)
            disk == GetVol(storage_config, B.device).path.kname
        IN B.flag # "logical" =>
           \A a \in PartsOn(storage_config, B.device) :
              LET A == storage_config[a]
                  ka == determine_partition_kname(
                            disk, determine_partition_number(A.id,
                                                             storage_config))
              IN ( /\ a < IndexOf(storage_config, B.id)
                   /\ A.flag # "logical"
                   /\ HasPart(kern, ka) )
                 => geometry[g].start_sector
                        >= FromSysfs(PartEntry(kern, ka).start, S)
                           + FromSysfs(PartEntry(kern, ka).size, S)

\* C6: on an msdos disk whose partitions carry no number and no logical
\* flag, the i-th partition declared on the disk is given the number i,
\* whatever else is declared in between
C6_DeclarationOrder ==
    \A d \in 1..Len(storage_config) :
        PlainMsdos(storage_config, d) =>
           /\ \A i \in PartsOn(storage_config, storage_config[d].id) :
                 determine_partition_number(storage_config[i].id, storage_config)
                 = Cardinality({j \in PartsOn(storage_config,
                                              storage_config[d].id) : j <= i})
           /\ \A g \in 1..Len(geometry) :
                 GetVol(storage_config, geometry[g].vol).device
                     = storage_config[d].id
                 => geometry[g].partition_number
                    = Cardinality({j \in PartsOn(storage_config,
                                                 storage_config[d].id) :
                                     j <= IndexOf(storage_config,
                                                  geometry[g].vol)})

\* three plain partitions of an msdos disk with a partition of another disk
\* declared in between, the third one handled as number 3
C6_Witness ==
    /\ HasVol(storage_config, "q1")
    /\ PlainMsdos(storage_config, 1)
    /\ \E g \in 1..Len(geometry) :
          /\ geometry[g].vol = "p3"
          /\ geometry[g].partition_number = 3
          /\ IndexOf(storage_config, "q1") < IndexOf(storage_config, "p3")

\* C7: a logical partition without a number is given 5 plus the number of
\* logical partitions of its disk declared before it, so the first logical
\* partition is number 5 whatever precedes it
C7_LogicalFromFive ==
    /\ \A i \in 1..Len(storage_config) :
          ( /\ storage_config[i].type = "partition"
            /\ storage_config[i].flag = "logical"
            /\ storage_config[i].number = 0 )
          => determine_partition_number(storage_config[i].id, storage_config)
             = 5 + Cardinality({j \in PartsOn(storage_config,
                                              storage_config[i].device) :
                                   j < i /\ storage_config[j].flag = "logical"})
    /\ \A g \in 1..Len(geometry) :
          LET v == GetVol(storage_config, geometry[g].vol)
          IN ( /\ v.flag = "logical"
               /\ v.number = 0
               /\ \A j \in PartsOn(storage_config, v.device) :
                     j < IndexOf(storage_config, v.id)
                     => storage_config[j].flag # "logical" )
             => geometry[g].partition_number = 5

\* the first logical partition, declared after a primary and an extended
\* partition, has been handled as number 5
C7_Witness ==
    \E g \in 1..Len(geometry) :
        /\ geometry[g].vol = "p3"
        /\ geometry[g].partition_number = 5
        /\ GetVol(storage_config, "p1").flag = "primary"
        /\ GetVol(storage_config, "p2").flag = "extended"
        /\ GetVol(storage_config, "p3").flag = "logical"

\* C8 as stated: the partition that is number 1 of its disk starts at sector
\* 2^20 / S and is floor(size / S) - 1 sectors long
C8_FirstPartition ==
    \A g \in 1..Len(geometry) :
        LET v == GetVol(storage_config, geometry[g].vol)
            S == SectorSize(storage_config, v)
        IN geometry[g].partition_number = 1 =>
           /\ geometry[g].start_sector = 1048576 \div S
           /\ geometry[g].length_sector = SectorsOf(v.size, S) - 1

\* C8, amended: it holds of the first partition unless it is flagged
\* extended; for S = 512 and 2GB the values are 2048 and 4194303
C8_FirstPartitionNotExtended ==
    \A g \in 1..Len(geometry) :
        LET v == GetVol(storage_config, geometry[g].vol)
            S == SectorSize(storage_config, v)
        IN (geometry[g].partition_number = 1 /\ v.flag # "extended") =>
           /\ geometry[g].start_sector = 1048576 \div S
           /\ geometry[g].length_sector = SectorsOf(v.size, S) - 1
           /\ (S = 512 /\ v.size = LargeKiB)
              => /\ geometry[g].start_sector = 2048
                 /\ geometry[g].length_sector = 4194303

\* a first partition of 2GB has been created on a disk of 4096-byte sectors
C8_Witness ==
    \E g \in 1..Len(geometry) :
        /\ geometry[g].partition_number = 1
        /\ GetVol(storage_config, geometry[g].vol).flag # "extended"
        /\ GetVol(storage_config, geometry[g].vol).size = LargeKiB
        /\ lbs[Sda] = 4096
        /\ geometry[g].start_sector = 256
        /\ geometry[g].vol \in {returned[k] : k \in 1..Len(returned)}

\* C9: the length of an extended partition is floor(size / S) - 1 plus k
\* alignment units of 2^20 / S sectors, k being the number of logical
\* partitions declared on the disk
C9_ExtendedInflation ==
    \A g \in 1..Len(geometry) :
        LET v == GetVol(storage_config, geometry[g].vol)
            S == SectorSize(storage_config, v)
            k == Cardinality({j \in PartsOn(storage_config, v.device) :
                                storage_config[j].flag = "logical"})
        IN v.flag = "extended" =>
           geometry[g].length_sector
               = SectorsOf(v.size, S) - 1 + k * (1048576 \div S)

\* an extended partition with two logical partitions has been created, two
\* alignment units longer than its declared size
C9_Witness ==
    \E g \in 1..Len(geometry) :
        LET v == GetVol(storage_config, geometry[g].vol)
        IN /\ v.flag = "extended"
           /\ Cardinality({j \in PartsOn(storage_config, v.device) :
                             storage_config[j].flag = "logical"}) = 2
           /\ geometry[g].length_sector
                  = SectorsOf(v.size, SectorSize(storage_config, v)) - 1
                    + 2 * (1048576 \div SectorSize(storage_config, v))
           /\ v.id \in {returned[k] : k \in 1..Len(returned)}

-----------------------------------------------------------------------------
(* Properties of the dispatcher and of the handlers (Spec)                 *)

\* C1: a handler is invoked only while the loop runs, for the next
\* declaration in order, when the handlers of all earlier declarations have
\* returned without error; the first error ends the run with that error and
\* no handler is invoked after it
C1_DeclarationOrder ==
    [][ /\ status # "running" => UNCHANGED <<started, returned, cmds, error>>
        /\ started' # started
           => /\ status = "running"
              /\ returned = started
              /\ started = [i \in 1..Len(started) |-> storage_config[i].id]
              /\ started' = Append(started,
                                   storage_config[Len(started) + 1].id)
              /\ \/ /\ returned' = started'
                    /\ status' \in {"running", "done"}
                    /\ error' = error
                 \/ /\ returned' = returned
                    /\ status' = "failed"
                    /\ error'.vol = storage_config[Len(started) + 1].id
                    /\ error'.kind # ""
        /\ returned' # returned => started' # started
      ]_vars

\* a handler has failed after earlier ones had returned, with declarations
\* left that are never handled
C1_Witness ==
    /\ status = "failed"
    /\ Len(returned) >= 1
    /\ Len(started) = Len(returned) + 1
    /\ Len(started) < Len(storage_config)
    /\ error.vol = started[Len(started)]

\* the operations that create or destroy what a volume holds
Constructive(c) ==
    \/ c.tool \in {"sgdisk", "parted", "wipe", "mkfs", "vgcreate", "lvcreate",
                   "make-bcache"}
    \/ c.tool = "cryptsetup" /\ c.op = "luksFormat"
    \/ c.tool = "mdadm" /\ c.op = "create"

\* C2: the handler of a volume declared preserve=true invokes no
\* constructive or destructive operation
C2_PreserveValidatesOnly ==
    \A k \in 1..Len(cmds) :
        GetVol(storage_config, cmds[k].vol).preserve => ~Constructive(cmds[k])

\* the paths the declared members of a raid resolve to
MemberPaths(cfg, vol) ==
    {named_volume_path(GetVol(cfg, vol.devices[i]), cfg) :
        i \in DOMAIN vol.devices}

\* C4: a raid declared preserve=true whose members are not those of the
\* array, neither as it is nor as an assemble brings it up, never has its
\* handler return successfully and mdadm create is never invoked for it
C4_PreservedRaidMismatch ==
    \A i \in 1..Len(storage_config) :
        LET vol == storage_config[i]
        IN ( /\ vol.type = "raid"
             /\ vol.preserve
             /\ ~md_check(md, MemberPaths(storage_config, vol), {})
             /\ ~md_check(mdAfter, MemberPaths(storage_config, vol), {}) )
           => /\ \A k \in 1..Len(returned) : returned[k] # vol.id
              /\ \A k \in 1..Len(cmds) :
                    cmds[k].vol = vol.id
                    => ~(cmds[k].tool = "mdadm" /\ cmds[k].op = "create")

\* C10: the handler of a bcache with a backing device, no cache device and
\* a cache_mode invokes no external tool
C10_BackingOnlyNoTool ==
    \A i \in 1..Len(storage_config) :
        ( /\ storage_config[i].type = "bcache"
          /\ storage_config[i].backing_device # ""
          /\ storage_config[i].cache_device = ""
          /\ storage_config[i].cache_mode # "" )
        => \A k \in 1..Len(cmds) : cmds[k].vol # storage_config[i].id

\* C11: a declaration whose type has no handler is never handed to a handler
\* and no external command is ever executed for its id; the run never gets
\* past it, so no declaration after it is processed and the run does not
\* complete; when the loop stands at it and has stopped, it has failed there
C11_UnknownTypeFailsFirst ==
    \A i \in 1..Len(storage_config) :
        storage_config[i].type \notin HandlerTypes
        => /\ \A k \in 1..Len(cmds) : cmds[k].vol # storage_config[i].id
           /\ \A j \in i..Len(storage_config) :
                 storage_config[j].id \notin Range(started)
           /\ idx <= i
           /\ status # "done"
           /\ (idx = i /\ status # "running")
              => /\ status = "failed"
                 /\ error.vol = storage_config[i].id
                 /\ error.kind = "ValueError"

\* the run has failed at a declaration of unknown type after an earlier
\* declaration was handled, with a declaration left after it
C11_Witness ==
    /\ status = "failed"
    /\ storage_config[idx].type \notin HandlerTypes
    /\ error.vol = storage_config[idx].id
    /\ Len(returned) >= 1
    /\ idx < Len(storage_config)
    /\ \A k \in 1..Len(cmds) : cmds[k].vol # storage_config[idx].id

\* C12: the error raised for a declaration of unknown type names the
\* declared id of that declaration
C12_ErrorNamesId ==
    (status = "failed" /\ storage_config[idx].type \notin HandlerTypes)
    => error.arg = storage_config[idx].id

-----------------------------------------------------------------------------
(* Properties of complete runs (SpecChain)                                 *)

\* the volume types get_path_to_storage_volume has a branch for
Resolvable == {"disk", "partition", "lvm_partition", "dm_crypt", "raid",
               "bcache"}

\* /dev/mapper/<dm_name>, dm_name being the id when the key is not set
MapperPath(vol) ==
    [dir |-> "/dev/mapper",
     kname |-> <<IF vol.dm_name = "" THEN vol.id ELSE vol.dm_name>>]

\* C13: the mapping name dm_crypt_handler hands to `cryptsetup open` is the
\* name get_path_to_storage_volume builds the path of the volume from; once
\* the volume is constructed its id resolves to /dev/mapper/<dm_name>, which
\* is the path a filesystem on it is made on
C13_DmCryptRoundTrip ==
    \A i \in 1..Len(storage_config) :
        LET vol == storage_config[i]
        IN vol.type = "dm_crypt"
           => /\ \A k \in 1..Len(cmds) :
                    ( /\ cmds[k].vol = vol.id
                      /\ cmds[k].tool = "cryptsetup"
                      /\ cmds[k].op = "open" )
                    => /\ named_volume_path(vol, storage_config)
                            = [dir |-> "/dev/mapper",
                               kname |-> <<cmds[k].name>>]
                       /\ MapperPath(vol)
                            = [dir |-> "/dev/mapper",
                               kname |-> <<cmds[k].name>>]
              /\ vol.id \in Range(returned)
                 => /\ ~Failed(get_path_to_storage_volume(
                                   R0(NoFail), vol.id, storage_config))
                    /\ get_path_to_storage_volume(
                           R0(NoFail), vol.id, storage_config).ret
                         = MapperPath(vol)
              /\ \A k \in 1..Len(cmds) :
                    ( /\ cmds[k].tool = "mkfs"
                      /\ GetVol(storage_config, cmds[k].vol).volume = vol.id )
                    => cmds[k].dev = MapperPath(vol)

\* a dm_crypt volume with a dm_name of its own was opened, and a filesystem
\* was made on the path its id resolved to
C13_Witness ==
    \E i \in 1..Len(storage_config) :
        /\ storage_config[i].type = "dm_crypt"
        /\ storage_config[i].dm_name # ""
        /\ storage_config[i].id \in Range(returned)
        /\ \E k \in 1..Len(cmds) :
              /\ cmds[k].tool = "cryptsetup"
              /\ cmds[k].op = "open"
              /\ cmds[k].name = storage_config[i].dm_name
        /\ \E k \in 1..Len(cmds) :
              /\ cmds[k].tool = "mkfs"
              /\ cmds[k].dev = MapperPath(storage_config[i])

\* the second of two calls returns what the first returned
SameAgain(r1, r2) == ~Failed(r1) => (~Failed(r2) /\ r2.ret = r1.ret)

-----------------------------------------------------------------------------
(* Properties of the device synchronisation (SpecSync)                     *)

\* C15: the devsync of a disk's path makes no poll when partprobe or the
\* settle raises; otherwise it makes one poll when the node is there, as
\* many polls as it takes the node to show up when that is within the 10
\* polls, and then returns with the node present; it makes exactly 10 polls
\* and raises OSError when no poll finds the node
C15_DevsyncBounded ==
    [][ started' # started
        => LET p == storage_config[idx].path
               n == Len(cmds')
           IN /\ polls' <= PollCount
              /\ \/ /\ cmds'[n].failed
                    /\ polls' = 0
                    /\ status' = "failed"
                    /\ error'.kind = "ProcessExecutionError"
                 \/ /\ ~cmds'[n].failed
                    /\ p \in devs
                    /\ polls' = 1
                    /\ returned' = Append(returned, storage_config[idx].id)
                 \/ /\ ~cmds'[n].failed
                    /\ p \notin devs
                    /\ appear \in 1..PollCount
                    /\ polls' = appear
                    /\ p \in devs'
                    /\ returned' = Append(returned, storage_config[idx].id)
                 \/ /\ ~cmds'[n].failed
                    /\ p \notin devs
                    /\ appear \notin 1..PollCount
                    /\ polls' = PollCount
                    /\ p \notin devs'
                    /\ status' = "failed"
                    /\ error'.kind = "OSError"
      ]_vars

\* a devsync has returned at its last poll, the first one to find the node
C15_Witness ==
    /\ polls = PollCount
    /\ appear = PollCount
    /\ Len(started) >= 1
    /\ returned = started
    /\ GetVol(storage_config, started[Len(started)]).path \in devs

-----------------------------------------------------------------------------
(* Properties of the resolver and of the handlers                          *)

\* the path a call has returned exists when the call returns
Observed(r) == ~Failed(r) => r.ret \in r.devs

\* C16: for every volume of a resolvable type, a call of
\* get_path_to_storage_volume that returns a path has seen that path exist
C16_ReturnedPathExists ==
    \A i \in 1..Len(storage_config) :
        storage_config[i].type \in Resolvable
        => Observed(get_path_to_storage_volume(
                        R0(NoFail), storage_config[i].id, storage_config))

\* what mount_handler is to write as the location of a filesystem on vol
ExpectedLocation(vol, r) ==
    [kind |-> IF vol.type \in {"disk", "raid", "lvm_partition", "bcache"}
              THEN "path" ELSE "UUID",
     dev |-> r.ret]

\* C17: a mount that has returned with an fstab configured has written one
\* line, whose location is the resolved path of the volume under the
\* filesystem when that is a disk, raid, lvm_partition or bcache and the
\* UUID of the filesystem on that path when it is a partition or dm_crypt; a
\* mount over any other type never returns, and a mount that has not
\* returned has written no line
C17_FstabLocation ==
    \A i \in 1..Len(storage_config) :
        LET info == storage_config[i]
            vol == GetVol(storage_config,
                          GetVol(storage_config, info.device).volume)
        IN info.type = "mount"
           => /\ (info.id \in Range(returned) /\ state.fstab)
                 => /\ Len(files.fstab) = 1
                    /\ vol.type \in Resolvable
                    /\ files.fstab[1].location
                         = ExpectedLocation(
                               vol, get_path_to_storage_volume(
                                        R0(NoFail), vol.id, storage_config))
              /\ vol.type \notin Resolvable => info.id \notin Range(returned)
              /\ (info.id \notin Range(returned) \/ ~state.fstab)
                 => files.fstab = <<>>

\* the mount of a filesystem on a dm_crypt volume has written its line
C17_Witness ==
    \E i \in 1..Len(storage_config) :
        /\ storage_config[i].type = "mount"
        /\ storage_config[i].id \in Range(returned)
        /\ GetVol(storage_config,
                  GetVol(storage_config, storage_config[i].device).volume).type
             = "dm_crypt"
        /\ Len(files.fstab) = 1
        /\ files.fstab[1].location.kind = "UUID"
        /\ files.fstab[1].location.dev.dir = "/dev/mapper"

\* C18: when no handler is running, no transient key file exists: every
\* dm_crypt_handler that has ended, by returning or by raising, has removed
\* the file it wrote the key to
C18_KeyFileRemoved == files.keyfiles = 0

\* the writes to /sys/fs/bcache/register made for one device by the handler
\* of one volume
RegisterAttempts(vol, dev) ==
    Cardinality({k \in 1..Len(cmds) :
                    /\ cmds[k].vol = vol
                    /\ cmds[k].tool = "sysfs"
                    /\ cmds[k].op = "register"
                    /\ cmds[k].dev = dev})

\* C19: at most 5 registration attempts are made for one device, and when
\* 5 of them have raised an I/O error the handler has failed
C19_AtMostFiveAttempts ==
    \A i \in 1..Len(storage_config), d \in {DevPath(Sda), DevPath(Sdb)} :
        /\ RegisterAttempts(storage_config[i].id, d) <= 5
        /\ Cardinality({k \in 1..Len(cmds) :
                           /\ cmds[k].vol = storage_config[i].id
                           /\ cmds[k].tool = "sysfs"
                           /\ cmds[k].op = "register"
                           /\ cmds[k].dev = d
                           /\ cmds[k].failed}) = 5
           => /\ status = "failed"
              /\ error.vol = storage_config[i].id

\* the calls that belong to device settle and to bcache registration
Racy(c) == c.tool \in {"partprobe", "udevadm", "sysfs"}

\* C20: a call of an external tool or an I/O operation that has raised,
\* other than those of device settle and bcache registration, is the last
\* thing its handler did: no command follows it and the run has failed at
\* the volume it was made for
C20_ErrorsPropagate ==
    \A k \in 1..Len(cmds) :
        (cmds[k].failed /\ ~Racy(cmds[k]))
        => /\ k = Len(cmds)
           /\ status = "failed"
           /\ error.vol = cmds[k].vol

-----------------------------------------------------------------------------
(* C21 *)

\* the ids a declaration refers to
Refs(vol) ==
    ({vol.device, vol.volume, vol.volgroup, vol.backing_device,
      vol.cache_device} \cup Range(vol.devices) \cup Range(vol.spare_devices))
    \ {""}

\* the external command that creates a partition, when it succeeded
Creates(c) ==
    /\ ~c.failed
    /\ \/ c.tool = "parted" /\ c.op = "mkpart"
       \/ c.tool = "sgdisk" /\ c.op = "new"

\* the node of the partition the command c created
CreatedPath(c) == DevPath(determine_partition_kname(c.dev.kname, c.num))

Settle(c) == c.tool = "udevadm" /\ c.op = "settle"

\* command j takes the partition created by command k as an input: it is run
\* on the partition's node, or by a volume that refers to the partition, or
\* it creates the next partition of the same disk (whose handler has just
\* read the created partition's start and size from sysfs)
UsesCreated(j, k) ==
    /\ j > k
    /\ ~Settle(cmds[j])
    /\ \/ cmds[j].dev = CreatedPath(cmds[k])
       \/ /\ cmds[j].vol # cmds[k].vol
          /\ cmds[k].vol \in Refs(GetVol(storage_config, cmds[j].vol))
       \/ /\ cmds[j].tool \in {"parted", "sgdisk"}
          /\ cmds[j].op \in {"mkpart", "new"}
          /\ cmds[j].dev = cmds[k].dev

\* C21: between the command that creates a partition and every later command
\* that takes the partition as an input there is a device settle.
C21_SettleBeforeUse ==
    \A k \in 1..Len(cmds) :
        Creates(cmds[k])
        => \A j \in 1..Len(cmds) :
               UsesCreated(j, k)
               => \E s \in (k + 1)..(j - 1) :
                      Settle(cmds[s]) /\ ~cmds[s].failed

\* a partition was created, wiped in its own handler and formatted by another
C21_Witness ==
    \E k \in 1..Len(cmds) :
        /\ Creates(cmds[k])
        /\ \E j \in 1..Len(cmds) :
               UsesCreated(j, k) /\ cmds[j].tool = "wipe"
        /\ \E j \in 1..Len(cmds) :
               UsesCreated(j, k) /\ cmds[j].tool = "mkfs"

-----------------------------------------------------------------------------
(* C22 *)

Ids(cfg) == {cfg[i].id : i \in 1..Len(cfg)}

\* the volume refers to an id that no declaration of the graph has
Dangling(cfg, vol) == Refs(vol) \ Ids(cfg) # {}

\* C22: the handler of a volume with a reference to an id absent from the
\* graph fails, and fails with ValueError.
C22_DanglingIsValueError ==
    \A i \in 1..Len(storage_config) :
        (/\ Dangling(storage_config, storage_config[i])
         /\ storage_config[i].id \in Range(started))
        => /\ status = "failed"
           /\ error.vol = storage_config[i].id
           /\ error.kind = "ValueError"

-----------------------------------------------------------------------------
(* C23 *)

\* the declaration has a raid level outside the allow-list, or spares with a
\* level that has no redundancy
BadRaid(vol) ==
    /\ vol.type = "raid"
    /\ \/ vol.raidlevel \notin RaidLevels
       \/ /\ vol.raidlevel \in {"linear", "raid0", "0", "stripe"}
          /\ vol.spare_devices # <<>>

\* C23: a raid volume with a raid level outside the allow-list, or with
\* spares and the level linear/raid0/stripe, fails with ValueError and its
\* handler has run no external command at all (resolving a member runs
\* partprobe and a settle).
C23_RaidRejectedFirst ==
    \A i \in 1..Len(storage_config) :
        (/\ BadRaid(storage_config[i])
         /\ storage_config[i].id \in Range(started))
        => /\ status = "failed"
           /\ error.vol = storage_config[i].id
           /\ error.kind = "ValueError"
           /\ \A k \in 1..Len(cmds) : cmds[k].vol # storage_config[i].id

\* a raid volume with resolvable members and a level outside the allow-list
\* was handled
C23_Witness ==
    \E i \in 1..Len(storage_config) :
        /\ BadRaid(storage_config[i])
        /\ storage_config[i].raidlevel \notin RaidLevels
        /\ storage_config[i].devices # <<>>
        /\ storage_config[i].id \in Range(started)

-----------------------------------------------------------------------------
(* C24 *)

\* what blkid reports for a disk carrying the declared partition table
PttypeOf(ptable) == IF ptable = "msdos" THEN "dos" ELSE ptable

\* C24: a preserved disk with a declared ptable whose handler returned
\* successfully carries a partition table of the declared type.
C24_PreservedPtableMatches ==
    \A i \in 1..Len(storage_config) :
        LET info == storage_config[i]
        IN (/\ info.type = "disk"
            /\ info.preserve
            /\ info.ptable # ""
            /\ info.id \in Range(returned))
           => PtabOf(ptab, info.path.kname) = PttypeOf(info.ptable)

-----------------------------------------------------------------------------
(* C25 *)

\* the logical partitions of the disk declared before position i
LogicalsBefore(cfg, i) ==
    {j \in PartsOn(cfg, cfg[i].device) : j < i /\ cfg[j].flag = "logical"}

\* the kernel's entry of the partition declared at position j
EntryOf(cfg, j) ==
    PartEntry(kern,
              determine_partition_kname(
                  GetVol(cfg, cfg[j].device).path.kname,
                  determine_partition_number(cfg[j].id, cfg)))

\* C25: on an msdos disk the first logical partition starts one alignment
\* unit after the start of the extended partition, and every further logical
\* partition one alignment unit after the end (start + size as the kernel
\* reports them) of the logical partition declared last before it.
C25_LogicalStarts ==
    \A g \in 1..Len(geometry) :
        LET cfg == storage_config
            i == IndexOf(cfg, geometry[g].vol)
            S == SectorSize(cfg, cfg[i])
            before == LogicalsBefore(cfg, i)
            last == CHOOSE j \in before : \A k \in before : k <= j
            ext == CHOOSE e \in ExtendedOf(cfg[i].device, cfg) : TRUE
        IN (/\ cfg[i].flag = "logical"
            /\ GetVol(cfg, cfg[i].device).ptable = "msdos")
           => geometry[g].start_sector
                = IF before = {}
                  THEN FromSysfs(EntryOf(cfg, ext).start, S)
                         + AlignmentOffset(S)
                  ELSE FromSysfs(EntryOf(cfg, last).start, S)
                         + FromSysfs(EntryOf(cfg, last).size, S)
                         + AlignmentOffset(S)

-----------------------------------------------------------------------------
(* C26 *)

\* mdadm --assemble was run for the volume and did not fail
Assembled(vol) ==
    \E k \in 1..Len(cmds) :
        /\ cmds[k].vol = vol.id
        /\ cmds[k].tool = "mdadm"
        /\ cmds[k].op = "assemble"
        /\ ~cmds[k].failed

\* C26: a preserved raid volume that was assembled, the assembled array
\* being made of exactly the resolved member paths of the declaration, has
\* its handler return successfully, and mdadm create is not invoked for it.
C26_AssembledArrayAccepted ==
    \A i \in 1..Len(storage_config) :
        LET vol == storage_config[i]
        IN (/\ vol.type = "raid"
            /\ vol.preserve
            /\ vol.spare_devices = <<>>
            /\ Assembled(vol)
            /\ md_check(md, MemberPaths(storage_config, vol), {}))
           => /\ vol.id \in Range(returned)
              /\ \A k \in 1..Len(cmds) :
                    cmds[k].vol = vol.id
                    => ~(cmds[k].tool = "mdadm" /\ cmds[k].op = "create")

-----------------------------------------------------------------------------
(* C27 *)

\* blkid was asked for the identifiers of the volume's device and answered
Probed(vol) ==
    \E k \in 1..Len(cmds) :
        /\ cmds[k].vol = vol.id
        /\ cmds[k].tool = "blkid"
        /\ cmds[k].op = "export"
        /\ ~cmds[k].failed

\* a named disk that is not preserved, gets no label and has none: blkid
\* prints no PTUUID for it
Unidentified(vol) ==
    /\ vol.type = "disk"
    /\ vol.name # ""
    /\ ~vol.preserve
    /\ vol.ptable = ""
    /\ PtabOf(ptab, vol.path.kname) = ""

\* the handler of a volume without an identifier has returned and there is
\* no rule file for it
SkippedQuietly ==
    \A i \in 1..Len(storage_config) :
        (Unidentified(storage_config[i]) /\ Probed(storage_config[i]))
        => /\ storage_config[i].id \in Range(returned)
           /\ \A ru \in rules : ru.file # storage_config[i].id

-----------------------------------------------------------------------------
(* C28 *)

\* the volume a partition / a logical volume is carved out of
ParentOf(cfg, vol) ==
    GetVol(cfg, IF vol.type = "partition" THEN vol.device ELSE vol.volgroup)

\* the one rejected combination: the child is not preserved, its parent is
Inconsistent(cfg, vol) == ~vol.preserve /\ ParentOf(cfg, vol).preserve

\* the command that creates the child
CreatesChild(c) ==
    \/ c.tool = "parted" /\ c.op = "mkpart"
    \/ c.tool = "sgdisk" /\ c.op = "new"
    \/ c.tool = "lvcreate"

\* C28: for a partition on its disk and for a logical volume in its volume
\* group alike, the handler fails with NotImplementedError only when the
\* child is not preserved and its parent is; with that combination the
\* handler never returns successfully and never creates the child, and when
\* it has run no command at all its error is NotImplementedError.
C28_SamePreserveRule ==
    \A i \in 1..Len(storage_config) :
        LET vol == storage_config[i]
            mine == {k \in 1..Len(cmds) : cmds[k].vol = vol.id}
        IN (/\ vol.type \in {"partition", "lvm_partition"}
            /\ vol.id \in Range(started))
           => /\ (error.vol = vol.id /\ error.kind = "NotImplementedError")
                 => Inconsistent(storage_config, vol)
              /\ Inconsistent(storage_config, vol)
                 => /\ vol.id \notin Range(returned)
                    /\ \A k \in mine : ~CreatesChild(cmds[k])
                    /\ (vol.type = "lvm_partition" /\ mine = {})
                       => error.kind = "NotImplementedError"

\* a logical volume that is not preserved was handled in a preserved volume
\* group, after a partition that is not preserved was created on its disk
C28_Witness ==
    \E i \in 1..Len(storage_config) :
        /\ storage_config[i].type = "lvm_partition"
        /\ Inconsistent(storage_config, storage_config[i])
        /\ error.vol = storage_config[i].id
        /\ error.kind = "NotImplementedError"
        /\ \E k \in 1..Len(cmds) : CreatesChild(cmds[k])

-----------------------------------------------------------------------------
(* C29 *)

\* the positions in cmds of the volume's successful lvdisplay
Listed(vol) ==
    {k \in 1..Len(cmds) : /\ cmds[k].vol = vol.id
                          /\ cmds[k].tool = "lvdisplay"
                          /\ ~cmds[k].failed}

\* the handler raised the ValueError of the validation: it failed with
\* ValueError right after lvdisplay
Refused(vol) ==
    /\ error.vol = vol.id
    /\ error.kind = "ValueError"
    /\ \A k \in Listed(vol) :
          \A j \in (k + 1)..Len(cmds) : cmds[j].vol # vol.id

\* C29: a preserved logical volume whose handler has listed the logical
\* volumes passes the validation exactly if a logical volume with the
\* declared name exists in the volume group with the declared name.
C29_ExactNameAndGroup ==
    \A i \in 1..Len(storage_config) :
        LET vol == storage_config[i]
        IN (/\ vol.type = "lvm_partition"
            /\ vol.preserve
            /\ Listed(vol) # {})
           => (~Refused(vol)
               <=> [lv |-> vol.name,
                    vg |-> GetVol(storage_config, vol.volgroup).name]
                   \in lvm.lvs)

-----------------------------------------------------------------------------
(* C30 *)

IsMount(id) == GetVol(storage_config, id).type = "mount"

\* the filesystem a mount declaration refers to
FilesystemOf(info) == GetVol(storage_config, info.device)

\* the mount commands run for the volume, in a sequence of commands
MountsOf(cs, id) ==
    {k \in 1..Len(cs) : cs[k].vol = id /\ cs[k].tool = "mount"}

\* the fstab has one line per mount volume handled successfully, in the
\* order they were handled, the line of a swap space reading none / sw;
\* without an fstab location it has no line
FstabInOrder ==
    LET done == SelectSeq(returned, IsMount)
    IN IF ~state.fstab THEN files.fstab = <<>>
       ELSE /\ Len(files.fstab) = Len(done)
            /\ \A k \in 1..Len(done) :
                  LET info == GetVol(storage_config, done[k])
                  IN IF FilesystemOf(info).fstype = "swap"
                     THEN /\ files.fstab[k].path = "none"
                          /\ files.fstab[k].options = "sw"
                     ELSE /\ files.fstab[k].path = "/" \o MountPoint(info.path)
                          /\ files.fstab[k].options = "defaults"

\* C30: with an fstab location every mount volume handled successfully
\* appends one line and leaves the earlier lines as they were, so the lines
\* are in the order of the mount declarations; a swap space is not mounted
\* and its line has mount point none and options sw, any other filesystem
\* is mounted once; no other step and no run without an fstab location
\* writes a line.
C30_FstabAppended ==
    [][/\ FstabInOrder'
       /\ IF /\ storage_config[idx].type = "mount"
             /\ returned' # returned
             /\ state.fstab
          THEN /\ Len(files'.fstab) = Len(files.fstab) + 1
               /\ SubSeq(files'.fstab, 1, Len(files.fstab)) = files.fstab
          ELSE files'.fstab = files.fstab
       /\ (storage_config[idx].type = "mount" /\ returned' # returned)
          => Cardinality(MountsOf(cmds', storage_config[idx].id))
               = IF FilesystemOf(storage_config[idx]).fstype = "swap"
                 THEN 0 ELSE 1]_vars

\* a filesystem and a swap space were both handled: two lines, the second
\* the swap space's, and one mount command
C30_Witness ==
    /\ status = "done"
    /\ Len(files.fstab) = 2
    /\ files.fstab[1].options = "defaults"
    /\ files.fstab[2].path = "none"
    /\ \E i \in 1..Len(storage_config) :
          /\ FilesystemOf(storage_config[i]).fstype = "swap"
          /\ storage_config[i].type = "mount"
          /\ storage_config[i].id \in Range(returned)
          /\ MountsOf(cmds, storage_config[i].id) = {}

-----------------------------------------------------------------------------
(* C31 *)

\* C31: when get_bootpt_cfg returns the boot partition enabled and was given
\* an fstype parameter, the returned fstype is the parameter.
C31_FstypeParameterWins ==
    (/\ bootpt.called
     /\ bootpt.ret["enabled"]
     /\ bootpt.fstype # "")
    => bootpt.ret["fstype"] = bootpt.fstype

-----------------------------------------------------------------------------
(* C32 *)

\* C32: the partitions of one disk, none of them with an explicit number,
\* for which partition_handler has computed a number have pairwise distinct
\* numbers.
C32_DistinctNumbers ==
    \A g, h \in 1..Len(geometry) :
        LET A == GetVol(storage_config, geometry[g].vol)
            B == GetVol(storage_config, geometry[h].vol)
        IN (/\ g # h
            /\ A.device = B.device
            /\ A.number = 0
            /\ B.number = 0)
           => geometry[g].partition_number # geometry[h].partition_number

-----------------------------------------------------------------------------
(* C33 *)

\* the declarations a partition's predecessor may be: for number 5 on an
\* msdos disk the extended partitions of the disk, otherwise the partitions
\* of the disk declared before it
Predecessors(cfg, i, n) ==
    IF n = 5 /\ GetVol(cfg, cfg[i].device).ptable = "msdos"
    THEN ExtendedOf(cfg[i].device, cfg)
    ELSE {j \in PartsOn(cfg, cfg[i].device) : j < i}

\* C33: a partition for which partition_handler got as far as computing a
\* geometry with a number greater than 1 has a predecessor: a partition of
\* the same disk declared before it (for number 5 on msdos: the extended
\* partition of the disk), with the number the handler looked up and with
\* an entry in sysfs.  A partition without one has no geometry: a partition
\* numbered 5 on an msdos disk without an extended partition and an
\* explicitly numbered partition declared first fail instead.
C33_PredecessorDefined ==
    /\ \A g \in 1..Len(geometry) :
          LET cfg == storage_config
              i == IndexOf(cfg, geometry[g].vol)
              disk == GetVol(cfg, cfg[i].device).path.kname
          IN geometry[g].partition_number > 1
             => \E j \in Predecessors(cfg, i, geometry[g].partition_number) :
                   /\ determine_partition_number(cfg[j].id, cfg)
                        = PreviousNumber(cfg[i], cfg)
                   /\ HasPart(kern, determine_partition_kname(
                                        disk, PreviousNumber(cfg[i], cfg)))
    /\ \A i \in 1..Len(storage_config) :
          LET cfg == storage_config
          IN (/\ cfg[i].type = "partition"
              /\ HasVol(cfg, cfg[i].device)
              /\ determine_partition_number(cfg[i].id, cfg) > 1
              /\ Predecessors(cfg, i,
                              determine_partition_number(cfg[i].id, cfg)) = {}
              /\ cfg[i].id \in Range(started))
             => /\ status = "failed"
                /\ error.vol = cfg[i].id
                /\ \A g \in 1..Len(geometry) : geometry[g].vol # cfg[i].id

\* a partition numbered 5 on an msdos disk without an extended partition
\* was handled
C33_Witness ==
    \E i \in 1..Len(storage_config) :
        /\ storage_config[i].type = "partition"
        /\ storage_config[i].flag # "logical"
        /\ GetVol(storage_config, storage_config[i].device).ptable = "msdos"
        /\ determine_partition_number(storage_config[i].id, storage_config) = 5
        /\ ExtendedOf(storage_config[i].device, storage_config) = {}
        /\ storage_config[i].id \in Range(started)
        /\ error.kind = "UnboundLocalError"

-----------------------------------------------------------------------------
(* C34 *)

\* the declared sizes of the declarations at the positions in `set`, summed
RECURSIVE SumOfSizes(_, _)
SumOfSizes(cfg, set) ==
    IF set = {} THEN 0
    ELSE LET i == CHOOSE x \in set : TRUE
         IN cfg[i].size + SumOfSizes(cfg, set \ {i})

\* the disk at position d is msdos and has one extended partition, every
\* partition declared after it is logical, no logical one is declared
\* before it, and the declared sizes of the logical ones sum to at most its
\* declared size
LogicalsFit(cfg, d) ==
    LET ext == ExtendedOf(cfg[d].id, cfg)
        e == CHOOSE x \in ext : TRUE
        logs == {i \in PartsOn(cfg, cfg[d].id) : cfg[i].flag = "logical"}
    IN /\ cfg[d].type = "disk"
       /\ cfg[d].ptable = "msdos"
       /\ Cardinality(ext) = 1
       /\ logs # {}
       /\ \A i \in PartsOn(cfg, cfg[d].id) :
             /\ i > e => cfg[i].flag = "logical"
             /\ cfg[i].flag = "logical" => i > e
             /\ cfg[i].number = 0
       /\ SumOfSizes(cfg, logs) <= cfg[e].size

GeometryOf(id) ==
    geometry[CHOOSE g \in 1..Len(geometry) : geometry[g].vol = id]

HasGeometry(id) == \E g \in 1..Len(geometry) : geometry[g].vol = id

\* C34: on an msdos disk with one extended partition followed by its logical
\* partitions, their declared sizes summing to at most the extended one's,
\* the sector range [start, start + length] computed for every logical
\* partition lies inside the range computed for the extended partition.
C34_LogicalInsideExtended ==
    \A d \in 1..Len(storage_config) :
        LogicalsFit(storage_config, d)
        => \A i \in PartsOn(storage_config, storage_config[d].id) :
              LET e == CHOOSE x \in ExtendedOf(storage_config[d].id,
                                               storage_config) : TRUE
                  E == GeometryOf(storage_config[e].id)
                  L == GeometryOf(storage_config[i].id)
              IN (/\ storage_config[i].flag = "logical"
                  /\ HasGeometry(storage_config[i].id))
                 => /\ HasGeometry(storage_config[e].id)
                    /\ L.start_sector >= E.start_sector
                    /\ L.start_sector + L.length_sector
                         <= E.start_sector + E.length_sector

\* two logical partitions that fill the declared size of the extended
\* partition have both been laid out
C34_Witness ==
    \E d \in 1..Len(storage_config) :
        /\ LogicalsFit(storage_config, d)
        /\ \E e \in ExtendedOf(storage_config[d].id, storage_config) :
              storage_config[e].size = 2 * SmallKiB
        /\ Cardinality({i \in PartsOn(storage_config, storage_config[d].id) :
                           /\ storage_config[i].flag = "logical"
                           /\ storage_config[i].id \in Range(returned)}) = 2

-----------------------------------------------------------------------------
(* C35 *)

\* the commands a step has added
NewCmds == SubSeq(cmds', Len(cmds) + 1, Len(cmds'))

\* commands that change nothing on a device: re-reading the partition table
\* and waiting for udev
ReadOnly(c) == c.tool \in {"partprobe", "udevadm"}

\* the dispatcher stands at a partition / logical volume that is not
\* preserved while its disk / volume group is
AtInconsistent ==
    /\ status = "running"
    /\ idx <= Len(storage_config)
    /\ storage_config[idx].type \in {"partition", "lvm_partition"}
    /\ HasVol(storage_config, ParentOf(storage_config, storage_config[idx]).id)
    /\ Inconsistent(storage_config, storage_config[idx])

\* C35: the step that handles a partition without preserve on a preserved
\* disk, or a logical volume without preserve in a preserved volume group,
\* ends the run with an error; the commands it runs only re-read the
\* partition table and settle udev (no parted, sgdisk, lvcreate or wipe),
\* and partitions, partition tables and LVM metadata are as before.
C35_ParentUntouched ==
    [][AtInconsistent
       => /\ status' = "failed"
          /\ error'.vol = storage_config[idx].id
          /\ \A k \in 1..Len(NewCmds) : ReadOnly(NewCmds[k])
          /\ UNCHANGED <<kern, ptab, lvm, md, bc, files, rules>>]_vars

\* a partition that is not preserved was rejected on a preserved disk, after
\* the disk's partition table was re-read
C35_Witness ==
    \E i \in 1..Len(storage_config) :
        /\ storage_config[i].type = "partition"
        /\ Inconsistent(storage_config, storage_config[i])
        /\ error.vol = storage_config[i].id
        /\ error.kind = "NotImplementedError"
        /\ \E k \in 1..Len(cmds) :
              cmds[k].vol = storage_config[i].id /\ cmds[k].tool = "partprobe"

-----------------------------------------------------------------------------
(* C36 *)

\* the declaration is wrong whatever the machine looks like
StaticallyWrong(cfg, vol) ==
    \/ vol.type \in {"lvm_partition", "bcache"} /\ vol.ptable # ""
    \/ /\ vol.type = "partition"
       /\ HasVol(cfg, vol.device)
       /\ GetVol(cfg, vol.device).ptable \notin {"gpt", "msdos"}

\* commands that build something
Builds(c) ==
    \/ c.tool \in {"lvcreate", "make-bcache", "parted", "sgdisk"}
    \/ c.tool = "sysfs" /\ c.op \in {"register", "attach"}

\* C36: no constructive command (lvcreate, make-bcache, a bcache register or
\* attach, parted, sgdisk) is run for a volume whose declaration has a
\* ptable on an lvm_partition or a bcache, or whose parent disk has a ptable
\* that is neither gpt nor msdos.
C36_StaticRejectedFirst ==
    \A i \in 1..Len(storage_config) :
        (/\ StaticallyWrong(storage_config, storage_config[i])
         /\ ~storage_config[i].preserve)
        => \A k \in 1..Len(cmds) :
              cmds[k].vol = storage_config[i].id => ~Builds(cmds[k])

-----------------------------------------------------------------------------
(* C37 *)

\* the handler of the bcache volume has gone on past the registration of its
\* cache device: it has run a command on the backing device
PastCacheRegistration(vol, backing_path) ==
    \E k \in 1..Len(cmds) :
        /\ cmds[k].vol = vol.id
        /\ cmds[k].dev = backing_path
        /\ cmds[k].tool \in {"make-bcache", "udevadm", "sysfs"}

\* C37: when ensure_bcache_is_registered has returned for the cache device
\* of a bcache volume (the handler has gone on to the backing device), the
\* cache device is registered: its cache set is in sysfs.
C37_ReturnsOnlyRegistered ==
    \A i \in 1..Len(storage_config) :
        LET vol == storage_config[i]
        IN (/\ vol.type = "bcache"
            /\ vol.cache_device # ""
            /\ vol.backing_device # ""
            /\ HasVol(storage_config, vol.cache_device)
            /\ HasVol(storage_config, vol.backing_device)
            /\ PastCacheRegistration(
                   vol, GetVol(storage_config, vol.backing_device).path))
           => Registered(bc, GetVol(storage_config, vol.cache_device).path,
                         "cache")


IdsOf(scfg) == {scfg[i].id : i \in 1..Len(scfg)}

\* the positions of the first and of the last declaration of an id
FirstAt(scfg, id) ==
    CHOOSE i \in 1..Len(scfg) :
        scfg[i].id = id /\ \A j \in 1..(i - 1) : scfg[j].id # id

LastAt(scfg, id) ==
    CHOOSE i \in 1..Len(scfg) :
        scfg[i].id = id /\ \A j \in (i + 1)..Len(scfg) : scfg[j].id # id

Repeated(scfg) == Cardinality(IdsOf(scfg)) < Len(scfg)

\* C38: for a declaration list in which two volumes share an id, the
\* extraction raises no error, the dict has one entry per distinct id, in the
\* order of the first declarations, each holding the last declaration of its
\* id; the dispatcher starts one handler per distinct id, and the geometry a
\* partition handler computes is that of the later declaration.
C38_LaterDeclarationOnce ==
    (status # "loading" /\ Repeated(config))
    => /\ error.kind = "" \/ error.vol # ""
       /\ Len(storage_config) = Cardinality(IdsOf(config))
       /\ \A k \in 1..Len(storage_config) :
             /\ storage_config[k]
                = config[LastAt(config, storage_config[k].id)]
             /\ Cardinality({id \in IdsOf(config) :
                               FirstAt(config, id)
                               < FirstAt(config, storage_config[k].id)})
                = k - 1
       /\ \A i, j \in 1..Len(started) : i # j => started[i] # started[j]
       /\ \A g \in 1..Len(geometry) :
             geometry[g].length_sector
             = LengthSectors(config[LastAt(config, geometry[g].vol)],
                             storage_config, 512)

\* the partition declared twice has been created, once, with the size of the
\* later declaration
C38_Witness ==
    /\ config = <<D1, P1, P1again>>
    /\ status = "done"
    /\ returned = <<"d1", "p1">>
    /\ Len(geometry) = 1
    /\ geometry[1].length_sector = LengthSectors(P1again, storage_config, 512)
    /\ geometry[1].length_sector # LengthSectors(P1, storage_config, 512)


InRegistry(rfc4173) == RegistryGet(iscsi.registry, rfc4173) # 0

\* the specifications stored, with their objects
Stored(reg) == {reg[i] : i \in 1..Len(reg)}

\* a call whose connect succeeded leaves its specification in the registry
ConnectedIsStored ==
    iscsi'.last.connect = "ok" => RegistryGet(iscsi'.registry,
                                              iscsi'.last.spec) # 0

\* a call with a specification already stored returns the stored object and
\* runs no iscsiadm
StoredIsReturned ==
    InRegistry(iscsi'.last.spec)
    => /\ iscsi'.last.ret = RegistryGet(iscsi.registry, iscsi'.last.spec)
       /\ iscsi'.last.exc = ""
       /\ iscsi'.last.ops = <<>>
       /\ iscsi'.registry = iscsi.registry

\* a call whose connect fails raises and leaves the registry as it was
FailedIsRaised ==
    iscsi'.last.connect = "failed"
    => /\ iscsi'.last.exc = "ProcessExecutionError"
       /\ iscsi'.last.ret = 0
       /\ iscsi'.registry = iscsi.registry

\* C39: for any sequence of ensure_disk_connected calls, a specification
\* whose connect succeeded is stored in the registry, every later call with
\* the same specification returns the same IscsiDisk without connecting
\* again, and a call whose connect fails re-raises and leaves the registry
\* unchanged.
C39_RegistryOfConnected ==
    [][iscsi' # iscsi
       => ConnectedIsStored /\ StoredIsReturned /\ FailedIsRaised]_vars

C39_LaterCalls ==
    [][iscsi' # iscsi => StoredIsReturned /\ FailedIsRaised]_vars

====
